---- MODULE Spec2Model ----
(***************************************************************************)
(* A model of binance-proxy: the ban detector (quota controller), the rate *)
(* limiter, the HTTP router with its klines / depth / ticker handlers, the *)
(* reverse proxy (forwarder), the per-class stream registry with its idle  *)
(* sweeper, and the kline stream's window merge.                           *)
(*                                                                         *)
(* Time is counted in milliseconds from a model epoch that lies on a       *)
(* minute boundary.  Go strings that the code parses (header values, query *)
(* values) are sequences of one-character strings.                         *)
(***************************************************************************)
EXTENDS Integers, Sequences, FiniteSets, TLC

VARIABLES
    now,        \* the wall clock, ms
    advances,   \* how often the clock has been advanced
    impl,       \* which handler.go is built: "hooks" or "transport"
    bd,         \* BanDetector: class -> its fields
    limiter,    \* rate.Limiter per class: tokens (1/100 token) and last
    req,        \* in-flight inbound HTTP requests: id -> record
    hist,       \* history (ghost) values the properties read
    srvMap,     \* Service.klinesSrv / depthSrv / tickerSrv: kind -> instance
    lastGet,    \* Service.lastGetKlines / Depth / Ticker: kind -> time
    streams,    \* the stream instances created so far: id -> record
    caller,     \* goroutines inside Service.Klines / Depth / Ticker
    sweeper,    \* the cleanup goroutine inside autoRemoveExpired
    klinesList, \* KlinesSrv.klinesList of one kline stream
    klinesArr,  \* KlinesSrv.klinesArr, the published snapshot
    wsPanic,    \* the stream's websocket goroutine has panicked
    view,       \* a handler's answer built from a snapshot, and what it read
    ks,         \* one KlinesSrv: its contexts and its websocket goroutine
    rd,         \* goroutines inside KlinesSrv.GetKlines
    exch,       \* the ExchangeInfoSrv: its body, its latch, its refresh loop
    exRd,       \* goroutines inside ExchangeInfoSrv.GetExchangeInfo
    rateCall,   \* the last service.RateWait call: its inputs and both buckets
    banCall,    \* the last BanDetector call: its inputs, the state before, the result
    sup,        \* the supervisor goroutines of one KlinesSrv and their websockets
    shut        \* Service.Stop and the Service's own goroutines

svcVars == <<srvMap, lastGet, streams, caller, sweeper>>
klVars == <<klinesList, klinesArr, wsPanic>>
extVars == <<view, ks, rd, exch, exRd>>
fwdVars == <<now, advances, impl, bd, limiter, req, hist>>
callVars == <<rateCall, banCall, sup, shut>>
vars == <<now, advances, impl, bd, limiter, req, hist, svcVars, klVars, extVars,
          callVars>>

-----------------------------------------------------------------------------
(* Bounds of the model                                                     *)

\* inbound requests handled concurrently
NumReqs == 2
\* clock advances in one behaviour
MaxAdvances == 2

-----------------------------------------------------------------------------
(* Time                                                                    *)

Second == 1000
Minute == 60 * Second
\* Go's zero time.Time (year 1): an instant far before every model instant
ZeroTime == 0 - 100000000
\* the instant the model starts at: 10 s into a minute
StartTime == 10 * Second
\* the steps the clock advances by
Deltas == {Second \div 2}

\* time.Time.Truncate(time.Minute).Add(time.Minute)
NextMinute(t) == (t - (t % Minute)) + Minute

Min(a, b) == IF a < b THEN a ELSE b
Max(a, b) == IF a > b THEN a ELSE b

-----------------------------------------------------------------------------
(* Strings and strconv.Atoi                                                *)

Digits == {"0", "1", "2", "3", "4", "5", "6", "7", "8", "9"}

DigitVal(c) ==
    CASE c = "0" -> 0 [] c = "1" -> 1 [] c = "2" -> 2 [] c = "3" -> 3
      [] c = "4" -> 4 [] c = "5" -> 5 [] c = "6" -> 6 [] c = "7" -> 7
      [] c = "8" -> 8 [] c = "9" -> 9

RECURSIVE DecVal(_)
DecVal(s) == IF s = <<>> THEN 0
             ELSE 10 * DecVal(SubSeq(s, 1, Len(s) - 1)) + DigitVal(s[Len(s)])

AllDigits(s) == \A i \in DOMAIN s : s[i] \in Digits

\* strconv.Atoi: an optional sign, then at least one decimal digit and
\* nothing else.  (No modelled string is long enough to leave int's range.)
Atoi(s) ==
    LET signed == Len(s) > 0 /\ s[1] \in {"+", "-"}
        ds     == IF signed THEN Tail(s) ELSE s
    IN  IF Len(ds) > 0 /\ AllDigits(ds)
        THEN [ok |-> TRUE,
              val |-> IF signed /\ s[1] = "-" THEN 0 - DecVal(ds) ELSE DecVal(ds)]
        ELSE [ok |-> FALSE, val |-> 0]

\* strings.Contains on an error message, a sequence of phrases
Contains(msg, phrase) == \E i \in DOMAIN msg : msg[i] = phrase

-----------------------------------------------------------------------------
(* service.Class and the BanDetector                                       *)

SPOT == "SPOT"
FUTURES == "FUTURES"
Classes == {SPOT, FUTURES}

NoResp == [status |-> 0, retryAfter |-> <<>>, usedWeight |-> <<>>,
           bodyMsgDigits |-> <<>>]
NoErr == <<>>

\* the zero value of the per-class fields of BanDetector
BanDetectorZero ==
    [banned |-> FALSE, recoveryTime |-> ZeroTime,
     errorCount |-> 0, lastError |-> ZeroTime,
     weightUsed |-> 0, weightLimit |-> 0, weightReset |-> ZeroTime,
     backoffCount |-> 0]

\* BanDetector.IsBanned: the value it returns ...
IsBannedResult(b, t) == b.banned /\ t < b.recoveryTime
\* ... and the state it leaves (the flag is cleared only strictly after the
\* recovery time)
IsBannedState(b, t) ==
    IF b.banned /\ ~(t < b.recoveryTime) /\ t > b.recoveryTime
    THEN [b EXCEPT !.banned = FALSE]
    ELSE b

\* BanDetector.GetBanStatus
GetBanStatus(b) == [banned |-> b.banned, until |-> b.recoveryTime]

setBanned(b, recoveryTime) ==
    [b EXCEPT !.banned = TRUE, !.recoveryTime = recoveryTime]

resetBackoffCount(b) == [b EXCEPT !.backoffCount = 0]

resetErrorCount(b) == [b EXCEPT !.errorCount = 0]

DefaultWeightLimit(class) == IF class = SPOT THEN 1200 ELSE 2400

\* BanDetector.updateWeightInfo
updateWeightInfo(b, class, resp, t) ==
    LET used == resp.usedWeight
        a    == Atoi(used)
        b1   == IF used # <<>>
                THEN (IF a.ok THEN [b EXCEPT !.weightUsed = a.val] ELSE b)
                ELSE [b EXCEPT !.weightUsed = b.weightUsed + 1]
        b2   == IF b1.weightLimit = 0
                THEN [b1 EXCEPT !.weightLimit = DefaultWeightLimit(class)]
                ELSE b1
    IN  IF t > b2.weightReset
        THEN [b2 EXCEPT !.weightUsed = 0, !.weightReset = NextMinute(t)]
        ELSE b2

\* BanDetector.isApproachingWeightLimit: used / limit > 0.9 in float64,
\* which for these magnitudes is the comparison 10 * used > 9 * limit
isApproachingWeightLimit(b) ==
    b.weightLimit > 0 /\ 10 * b.weightUsed > 9 * b.weightLimit

\* BanDetector.getWeightResetTime
getWeightResetTime(t) == NextMinute(t) - t

\* BanDetector.parseRetryAfter: the zero time when the header is absent or
\* is no integer
parseRetryAfter(resp, t) ==
    LET a == Atoi(resp.retryAfter)
    IN  IF resp.retryAfter = <<>> THEN ZeroTime
        ELSE IF a.ok THEN t + a.val * Second
        ELSE ZeroTime

\* the unix time, in seconds, that the model epoch stands for
EpochUnix == 28333333 * 60

\* BanDetector.parseBanExpiryNonDestructive: resp.body.msg is the first run
\* of decimal digits of the JSON body's msg field (empty when the body is
\* no JSON object or msg holds no digit).  The regexp \d{10,13} takes up to
\* 13 digits of a run of at least 10; a value above 9999999999 (11 digits
\* or more) is in ms and is divided by 1000.
parseBanExpiryNonDestructive(resp) ==
    LET run   == resp.bodyMsgDigits
        m     == SubSeq(run, 1, Min(Len(run), 13))
        secs  == IF Len(m) > 10 THEN SubSeq(m, 1, Len(m) - 3) ELSE m
    IN  IF Len(run) < 10 THEN ZeroTime
        ELSE (DecVal(secs) - EpochUnix) * Second

\* BanDetector.incrementErrorCount
incrementErrorCount(b, t) ==
    LET c == IF t - b.lastError > Minute THEN 0 ELSE b.errorCount
    IN  [b EXCEPT !.errorCount = c + 1, !.lastError = t]

\* bit i of 5^9 = 1953125: time.Second is 2^9 * 5^9 ns, so the int64 product
\* (1 << n) * time.Second has its sign bit set exactly when bit 54 - n of
\* 5^9 is set
Pow2(n) == IF n = 0 THEN 1 ELSE IF n = 1 THEN 2 ELSE IF n = 2 THEN 4
           ELSE IF n = 3 THEN 8 ELSE IF n = 4 THEN 16 ELSE IF n = 5 THEN 32
           ELSE IF n = 6 THEN 64 ELSE IF n = 7 THEN 128 ELSE IF n = 8 THEN 256
           ELSE 512
RECURSIVE BitOf(_, _)
BitOf(x, i) == IF i = 0 THEN x % 2 ELSE BitOf(x \div 2, i - 1)

\* BanDetector.getExponentialBackoff, the duration for the incremented
\* count n, in ms: 2^n s capped at 10 min while the int64 nanosecond product
\* does not wrap (n <= 33); a wrapped product is 0 for n >= 55 and otherwise
\* a multiple of 2^(n+9) ns that is either negative (an instant hours in the
\* past, given as ZeroTime - now so that now + duration is ZeroTime) or at
\* least 2^43 ns and so capped
backoffDuration(n, t) ==
    IF n <= 9 THEN Min(Pow2(n) * Second, 10 * Minute)
    ELSE IF n <= 33 THEN 10 * Minute
    ELSE IF n >= 55 THEN 0
    ELSE IF BitOf(1953125, 54 - n) = 1 THEN ZeroTime - t
    ELSE 10 * Minute

BanSubstrings == {"connection refused", "timeout", "no route to host"}

\* BanDetector.CheckResponse: the state it leaves and the value it returns
CheckResponse(b, class, resp, err, t) ==
    LET bw  == IF resp # NoResp THEN updateWeightInfo(b, class, resp, t) ELSE b
        ra  == parseRetryAfter(resp, t)
        be  == parseBanExpiryNonDestructive(resp)
        matches == err # NoErr /\ \E p \in BanSubstrings : Contains(err, p)
        bi  == IF matches THEN incrementErrorCount(bw, t) ELSE bw
        bb  == [bi EXCEPT !.backoffCount = bi.backoffCount + 1]
    IN  IF resp # NoResp /\ isApproachingWeightLimit(bw)
            /\ getWeightResetTime(t) > 0
        THEN [bd |-> setBanned(bw, t + getWeightResetTime(t)), ban |-> TRUE]
        ELSE IF resp # NoResp /\ resp.status = 418
        THEN [bd |-> resetBackoffCount(setBanned(bw,
                        IF ra # ZeroTime THEN ra
                        ELSE IF be # ZeroTime THEN be
                        ELSE t + 10 * Minute)),
              ban |-> TRUE]
        ELSE IF resp # NoResp /\ resp.status = 429
        THEN [bd |-> resetBackoffCount(setBanned(bw,
                        IF ra # ZeroTime THEN ra ELSE t + Minute)),
              ban |-> TRUE]
        ELSE IF resp # NoResp /\ resp.status = 403
        THEN [bd |-> setBanned(bw, t + 5 * Minute), ban |-> TRUE]
        ELSE IF matches /\ bi.errorCount >= 5
        THEN [bd |-> resetErrorCount(setBanned(bb,
                        t + backoffDuration(bb.backoffCount, t))),
              ban |-> TRUE]
        ELSE IF resp # NoResp /\ resp.status = 200
        THEN [bd |-> resetBackoffCount(resetErrorCount(bi)), ban |-> FALSE]
        ELSE [bd |-> bi, ban |-> FALSE]

-----------------------------------------------------------------------------
(* The rate limiter (golang.org/x/time/rate behind service.RateWait)       *)

\* url.Values.Get: "" for an absent key
Absent == <<"(absent)">>
Get(q, k) == IF q[k] = Absent THEN <<>> ELSE q[k]

KlinePaths == {"/api/v3/klines", "/fapi/v1/klines"}
DepthPaths == {"/api/v3/depth", "/fapi/v1/depth"}
TickerPath == "/api/v3/ticker/24hr"
ExchangeInfoPaths == {"/api/v3/exchangeInfo", "/fapi/v1/exchangeInfo"}

\* calculateKlineWeight with the thresholds themselves in the next band
calculateKlineWeightStrict(q) ==
    LET a == Atoi(Get(q, "limit"))
    IN  IF Get(q, "limit") = <<>> \/ ~a.ok THEN 1
        ELSE IF a.val < 100 THEN 1
        ELSE IF a.val < 500 THEN 2
        ELSE IF a.val < 1000 THEN 5
        ELSE 10

calculateKlineWeight(q) ==
    LET a == Atoi(Get(q, "limit"))
    IN  IF Get(q, "limit") = <<>> \/ ~a.ok THEN 1
        ELSE IF a.val <= 100 THEN 1
        ELSE IF a.val <= 500 THEN 2
        ELSE IF a.val <= 1000 THEN 5
        ELSE 10

calculateDepthWeightSpot(q) ==
    LET a == Atoi(Get(q, "limit"))
    IN  IF Get(q, "limit") = <<>> \/ ~a.ok THEN 1
        ELSE IF a.val <= 100 THEN 1
        ELSE IF a.val <= 500 THEN 5
        ELSE IF a.val = 1000 THEN 10
        ELSE IF a.val = 5000 THEN 50
        ELSE 1

calculateDepthWeightFutures(q) ==
    LET a == Atoi(Get(q, "limit"))
    IN  IF Get(q, "limit") = <<>> \/ ~a.ok THEN 2
        ELSE IF a.val <= 50 THEN 2
        ELSE IF a.val = 100 THEN 5
        ELSE IF a.val = 500 THEN 10
        ELSE IF a.val = 1000 THEN 20
        ELSE 2

\* calculateWeight with the rows of the streams and the exchange info only
calculateWeightStreamRows(path, method, q) ==
    IF path \in KlinePaths THEN calculateKlineWeight(q)
    ELSE IF path = "/api/v3/depth" THEN calculateDepthWeightSpot(q)
    ELSE IF path = "/fapi/v1/depth" THEN calculateDepthWeightFutures(q)
    ELSE IF path \in {"/api/v3/ticker/24hr", "/fapi/v1/ticker/24hr"}
    THEN (IF Get(q, "symbol") = <<>> THEN 40 ELSE 1)
    ELSE IF path \in ExchangeInfoPaths THEN 10
    ELSE 1

calculateWeight(path, method, q) ==
    IF path \in KlinePaths THEN calculateKlineWeight(q)
    ELSE IF path = "/api/v3/depth" THEN calculateDepthWeightSpot(q)
    ELSE IF path = "/fapi/v1/depth" THEN calculateDepthWeightFutures(q)
    ELSE IF path \in {"/api/v3/ticker/24hr", "/fapi/v1/ticker/24hr"}
    THEN (IF Get(q, "symbol") = <<>> THEN 40 ELSE 1)
    ELSE IF path \in ExchangeInfoPaths THEN 10
    ELSE IF path \in {"/api/v3/account", "/api/v3/myTrades", "/api/v3/allOrders"}
    THEN 10
    ELSE IF path = "/api/v3/order" THEN (IF method = "GET" THEN 2 ELSE 1)
    ELSE IF path \in {"/fapi/v1/userTrades", "/fapi/v2/account", "/fapi/v1/allOrders"}
    THEN 5
    ELSE IF path = "/api/v3/openOrders"
    THEN (IF Get(q, "symbol") = <<>> THEN 40 ELSE 3)
    ELSE IF path = "/fapi/v1/openOrders"
    THEN (IF Get(q, "symbol") = <<>> THEN 5 ELSE 1)
    ELSE 1

\* InitializeRateLimiters(20, 1200, 40, 2400): tokens per second and burst
LimiterRPS(class) == IF class = SPOT THEN 20 ELSE 40
LimiterBurst(class) == IF class = SPOT THEN 1200 ELSE 2400

\* tokens are counted in hundredths, so that one ms refills a whole number
Centi == 10 * 10
RefillPerMs(class) == (LimiterRPS(class) * Centi) \div Second

\* rate.NewLimiter: no tokens and the zero time, so the first use finds the
\* bucket full
LimiterZero == [tokens |-> 0, last |-> ZeroTime]

\* Limiter.advance: the tokens at t
advance(l, class, t) ==
    LET last == IF t < l.last THEN t ELSE l.last
    IN  Min(LimiterBurst(class) * Centi,
            l.tokens + (t - last) * RefillPerMs(class))

\* Limiter.Allow(): takes one token if one is there, else changes nothing
Allow(l, class, t) ==
    LET tk == advance(l, class, t) - Centi
    IN  IF tk >= 0 THEN [tokens |-> tk, last |-> t] ELSE l

\* Limiter.WaitN(ctx, n) with a context that has no deadline: the
\* reservation (tokens may go negative) and the instant it may act at
WaitN(l, class, n, t) ==
    LET tk   == advance(l, class, t) - n * Centi
        wait == IF tk < 0
                THEN ((0 - tk) + RefillPerMs(class) - 1) \div RefillPerMs(class)
                ELSE 0
    IN  [lim |-> [tokens |-> tk, last |-> t], readyAt |-> t + wait]

\* service.RateWait: Allow() and then WaitN(weight) on the class's limiter
RateWait(l, class, method, path, q, t) ==
    WaitN(Allow(l, class, t), class, calculateWeight(path, method, q), t)

-----------------------------------------------------------------------------
(* Inbound requests and the responses written to the client                *)

Reqs == 1..NumReqs

\* no Retry-After / X-Backoff-Until header set by the proxy
NoHeader == 0 - 1
NoTime == ZeroTime - 1

\* what the client has received: nothing yet
NoOut == [status |-> 0, contentType |-> "", dataSource |-> "",
          cacheControl |-> "", proxyEmpty |-> FALSE, retryAfter |-> NoHeader,
          backoffUntil |-> NoTime, body |-> <<>>, upstream |-> NoResp,
          why |-> "", remaining |-> 0]

NoQuery == [symbol |-> Absent, interval |-> Absent, limit |-> Absent,
            startTime |-> Absent, endTime |-> Absent]

\* a request no goroutine is serving.  History fields: route is who answers
\* the request ("stream", "apicache", "local", "ban" for the klines
\* handler's own ban answer, "forward" once it is handed to reverseProxy),
\* sawBan is the result of the klines handler's IsBanned, nilData tells that
\* the Service returned a nil snapshot, checks counts the calls of
\* CheckResponse on the upstream's answer, upResp and upErr are that answer
Idle == [pc |-> "idle", class |-> SPOT, method |-> "GET", path |-> "",
         q |-> NoQuery, out |-> NoOut, ban |-> FALSE, readyAt |-> 0,
         sentBanned |-> FALSE, limitInt |-> 0,
         route |-> "", sawBan |-> FALSE, nilData |-> FALSE,
         checks |-> 0, upResp |-> NoResp, upErr |-> NoErr]

\* the body of a synthetic empty response, by path (the switch shared by
\* returnEmptyResponse and ModifyResponse)
EmptyBody(path) ==
    IF path \in KlinePaths THEN "[]"
    ELSE IF path \in DepthPaths THEN "{\"lastUpdateId\":0,\"bids\":[],\"asks\":[]}"
    ELSE IF path = TickerPath THEN "{}"
    ELSE "{}"

\* int(time.Until(until).Seconds()), replaced by 30 when below 1
RetryAfterSecs(until, t) ==
    LET secs == (until - t) \div Second
    IN  IF secs < 1 THEN 30 ELSE secs

\* time.Time.Format(time.RFC3339): whole seconds
FormatRFC3339(t) == t - (t % Second)

\* Handler.returnEmptyResponse as built from the ReverseProxy-hooks handler:
\* the headers, Retry-After and X-Backoff-Until while GetBanStatus reports a
\* ban, WriteHeader(429) and the body
returnEmptyResponseHooks(path, b, t) ==
    LET st == GetBanStatus(b)
    IN  [NoOut EXCEPT
            !.status = 429,
            !.contentType = "application/json",
            !.dataSource = "ban-protection",
            !.cacheControl = "no-store",
            !.proxyEmpty = TRUE,
            !.retryAfter = IF st.banned THEN RetryAfterSecs(st.until, t)
                           ELSE NoHeader,
            !.backoffUntil = IF st.banned THEN FormatRFC3339(st.until)
                             ELSE NoTime,
            !.body = <<EmptyBody(path)>>,
            !.why = "ban",
            !.remaining = IF st.banned THEN st.until - t ELSE 0]

\* Handler.returnEmptyResponse as built from the banCheckTransport handler:
\* two headers and Write, which sends status 200
returnEmptyResponseTransport(path) ==
    [NoOut EXCEPT
        !.status = 200,
        !.contentType = "application/json",
        !.dataSource = "ban-protection",
        !.body = <<EmptyBody(path)>>,
        !.why = "ban"]

returnEmptyResponse(path, b, t) ==
    IF impl = "hooks" THEN returnEmptyResponseHooks(path, b, t)
    ELSE returnEmptyResponseTransport(path)

\* the upstream response passed through to the client unchanged
PassThrough(resp) ==
    [NoOut EXCEPT !.status = resp.status, !.body = <<"upstream body">>,
                  !.upstream = resp, !.why = "upstream"]

\* the 502 of ReverseProxy.ErrorHandler
BadGateway ==
    [NoOut EXCEPT !.status = 502, !.contentType = "application/json",
                  !.cacheControl = "no-store", !.dataSource = "proxy-error",
                  !.body = <<"{\"error\":\"bad_gateway\",\"message\":\"upstream fetch failed\"}">>,
                  !.why = "error"]

\* ghost: the last synthetic Retry-After per class and the deadline it was
\* computed for, and whether a later one for the same deadline was larger
NoteRetryAfter(h, class, out, until) ==
    IF out.retryAfter = NoHeader THEN h
    ELSE [h EXCEPT
            !.rose[class] = h.rose[class]
                \/ (h.lastUntil[class] = until
                    /\ out.retryAfter > h.lastRetry[class]),
            !.lastUntil[class] = until,
            !.lastRetry[class] = out.retryAfter]

-----------------------------------------------------------------------------
(* The router and the handlers (package handler)                           *)

Set(r, rec) == req' = [req EXCEPT ![r] = rec]

\* Handler.Router: the switch on r.URL.Path; the method is not looked at
RouterTarget(path) ==
    IF path = "/status" THEN "status"
    ELSE IF path = "/restart" THEN "restart"
    ELSE IF path \in KlinePaths THEN "klines"
    ELSE IF path \in DepthPaths THEN "depth"
    ELSE IF path = TickerPath THEN "ticker"
    ELSE IF path \in ExchangeInfoPaths THEN "exchangeInfo"
    ELSE "rp"

\* a request arrives at the class's listener and Router dispatches it (the
\* goroutines are interchangeable: they are numbered in order of arrival;
\* one behaviour follows the requests of one class's listener)
Router(r, class, method, path, q) ==
    /\ req[r].pc = "idle"
    /\ \A o \in Reqs : o < r => req[o].pc # "idle" /\ req[o].class = class
    /\ Set(r, [Idle EXCEPT !.pc = RouterTarget(path), !.class = class,
                           !.method = method, !.path = path, !.q = q,
                           !.route = IF RouterTarget(path) = "rp" THEN "forward"
                                     ELSE ""])
    /\ UNCHANGED <<now, advances, impl, callVars, bd, limiter, hist, svcVars, klVars, extVars>>

\* the response of the klines handler's own ban check: two headers and
\* Write, which sends status 200
KlinesBanResponse ==
    [NoOut EXCEPT !.status = 200, !.contentType = "application/json",
                  !.dataSource = "ban-protection", !.body = <<"[]">>,
                  !.why = "ban"]

\* Handler.klines, the query checks: the limit defaults to "500"
KlinesServableNoDefault(q) ==
    LET a == Atoi(Get(q, "limit"))
    IN  ~(\/ ~a.ok
          \/ a.val <= 0
          \/ a.val > 1000
          \/ Get(q, "startTime") # <<>>
          \/ Get(q, "endTime") # <<>>
          \/ Get(q, "symbol") = <<>>
          \/ Get(q, "interval") = <<>>)
KlinesServable(q) ==
    LET limit == IF Get(q, "limit") = <<>> THEN <<"5", "0", "0">>
                 ELSE Get(q, "limit")
        a     == Atoi(limit)
    IN  ~(\/ ~a.ok
          \/ a.val <= 0
          \/ a.val > 1000
          \/ Get(q, "startTime") # <<>>
          \/ Get(q, "endTime") # <<>>
          \/ Get(q, "symbol") = <<>>
          \/ Get(q, "interval") = <<>>)

KlinesLimit(q) ==
    Atoi(IF Get(q, "limit") = <<>> THEN <<"5", "0", "0">> ELSE Get(q, "limit")).val

\* Handler.klines up to its call of Service.Klines or reverseProxy
KlinesHandler(r) ==
    LET c == req[r].class
    IN  /\ req[r].pc = "klines"
        /\ bd' = [bd EXCEPT ![c] = IsBannedState(@, now)]
        /\ IF IsBannedResult(bd[c], now)
           THEN Set(r, [req[r] EXCEPT !.pc = "done", !.out = KlinesBanResponse,
                                      !.route = "ban", !.sawBan = TRUE])
           ELSE IF KlinesServable(req[r].q)
           THEN Set(r, [req[r] EXCEPT !.pc = "svc",
                                      !.limitInt = KlinesLimit(req[r].q)])
           ELSE Set(r, [req[r] EXCEPT !.pc = "rp", !.route = "forward"])
        /\ UNCHANGED <<now, advances, impl, callVars, limiter, hist, svcVars, klVars, extVars>>

\* Handler.depth, the query checks: the limit defaults to "20"
DepthServableNoDefault(q) ==
    LET a == Atoi(Get(q, "limit"))
    IN  ~(~a.ok \/ Get(q, "symbol") = <<>> \/ a.val < 5 \/ a.val > 20)
DepthServable(q) ==
    LET limit == IF Get(q, "limit") = <<>> THEN <<"2", "0">> ELSE Get(q, "limit")
        a     == Atoi(limit)
    IN  ~(~a.ok \/ Get(q, "symbol") = <<>> \/ a.val < 5 \/ a.val > 20)

DepthLimit(q) ==
    Atoi(IF Get(q, "limit") = <<>> THEN <<"2", "0">> ELSE Get(q, "limit")).val

\* Handler.depth up to its call of Service.Depth or reverseProxy
DepthHandler(r) ==
    /\ req[r].pc = "depth"
    /\ IF DepthServable(req[r].q)
       THEN Set(r, [req[r] EXCEPT !.pc = "svc", !.limitInt = DepthLimit(req[r].q)])
       ELSE Set(r, [req[r] EXCEPT !.pc = "rp", !.route = "forward"])
    /\ UNCHANGED <<now, advances, impl, callVars, bd, limiter, hist, svcVars, klVars, extVars>>

\* Handler.ticker, the query check
TickerServable(q) == Get(q, "symbol") # <<>>

\* Handler.ticker up to its call of Service.Ticker or reverseProxy
TickerHandler(r) ==
    /\ req[r].pc = "ticker"
    /\ IF TickerServable(req[r].q)
       THEN Set(r, [req[r] EXCEPT !.pc = "svc"])
       ELSE Set(r, [req[r] EXCEPT !.pc = "rp", !.route = "forward"])
    /\ UNCHANGED <<now, advances, impl, callVars, bd, limiter, hist, svcVars, klVars, extVars>>

\* the answer built from a stream's snapshot
StreamResponse ==
    [NoOut EXCEPT !.status = 200, !.contentType = "application/json",
                  !.dataSource = "websocket", !.body = <<"snapshot">>,
                  !.why = "stream"]

\* the handlers with the nil check left out: the snapshot is encoded and
\* written whatever it is
ServeSnapshotIgnoresNil(r, isNil) ==
    /\ req[r].pc = "svc"
    /\ Set(r, [req[r] EXCEPT !.pc = "done", !.route = "stream",
                             !.nilData = isNil, !.out = StreamResponse])
    /\ UNCHANGED <<now, advances, impl, callVars, bd, limiter, hist, svcVars, klVars, extVars>>

\* the handlers after the query checks: s.srv.Klines / Depth / Ticker has
\* returned the stream's snapshot; a nil one sends the request to
\* reverseProxy, any other is encoded and written
ServeSnapshot(r, isNil) ==
    /\ req[r].pc = "svc"
    /\ IF isNil
       THEN Set(r, [req[r] EXCEPT !.pc = "rp", !.route = "forward",
                                  !.nilData = TRUE])
       ELSE Set(r, [req[r] EXCEPT !.pc = "done", !.route = "stream",
                                  !.out = StreamResponse])
    /\ UNCHANGED <<now, advances, impl, callVars, bd, limiter, hist, svcVars, klVars, extVars>>

\* Handler.exchangeInfo: Service.ExchangeInfo returns once the first fetch
\* has succeeded, with the stored body; the two handlers differ in the
\* Data-Source they name
ExchangeInfoHandler(r) ==
    /\ req[r].pc = "exchangeInfo"
    /\ Set(r, [req[r] EXCEPT !.pc = "done", !.route = "apicache",
                  !.out = [NoOut EXCEPT !.status = 200,
                              !.contentType = "application/json",
                              !.dataSource = IF impl = "hooks" THEN "cache"
                                             ELSE "apicache",
                              !.body = <<"exchangeInfo body">>,
                              !.why = "apicache"]])
    /\ UNCHANGED <<now, advances, impl, callVars, bd, limiter, hist, svcVars, klVars, extVars>>

\* Handler.status: the proxy's own status document
StatusHandler(r) ==
    /\ req[r].pc = "status"
    /\ Set(r, [req[r] EXCEPT !.pc = "done", !.route = "local",
                  !.out = [NoOut EXCEPT !.status = 200,
                              !.contentType = "application/json",
                              !.body = <<"status document">>, !.why = "local"]])
    /\ UNCHANGED <<now, advances, impl, callVars, bd, limiter, hist, svcVars, klVars, extVars>>

\* Handler.restart: 405 unless the method is GET, else the announcement of
\* the restart
RestartHandler(r) ==
    /\ req[r].pc = "restart"
    /\ Set(r, [req[r] EXCEPT !.pc = "done", !.route = "local",
                  !.out = [NoOut EXCEPT
                              !.status = IF req[r].method = "GET" THEN 200 ELSE 405,
                              !.contentType = "application/json",
                              !.body = <<IF req[r].method = "GET"
                                         THEN "Restart initiated"
                                         ELSE "only GET method allowed">>,
                              !.why = "local"]])
    /\ UNCHANGED <<now, advances, impl, callVars, bd, limiter, hist, svcVars, klVars, extVars>>

-----------------------------------------------------------------------------
(* Handler.reverseProxy                                                    *)

\* the pre-check, first half: banDetector.IsBanned(s.class)
RpIsBanned(r) ==
    LET c == req[r].class
    IN  /\ req[r].pc = "rp"
        /\ bd' = [bd EXCEPT ![c] = IsBannedState(@, now)]
        /\ Set(r, [req[r] EXCEPT !.pc = IF IsBannedResult(bd[c], now)
                                        THEN "rp_status" ELSE "ratewait"])
        /\ UNCHANGED <<now, advances, impl, callVars, limiter, hist, svcVars, klVars, extVars>>

\* the pre-check, second half: banDetector.GetBanStatus(s.class)
RpGetBanStatus(r) ==
    /\ req[r].pc = "rp_status"
    /\ Set(r, [req[r] EXCEPT !.pc = IF GetBanStatus(bd[req[r].class]).banned
                                    THEN "empty" ELSE "ratewait"])
    /\ UNCHANGED <<now, advances, impl, callVars, bd, limiter, hist, svcVars, klVars, extVars>>

\* s.returnEmptyResponse(w, r), from the pre-check or from ErrorHandler
ReturnEmpty(r) ==
    LET c   == req[r].class
        out == returnEmptyResponse(req[r].path, bd[c], now)
    IN  /\ req[r].pc = "empty"
        /\ Set(r, [req[r] EXCEPT !.pc = "done", !.out = out])
        /\ hist' = NoteRetryAfter(hist, c, out, bd[c].recoveryTime)
        /\ UNCHANGED <<now, advances, impl, callVars, bd, limiter, svcVars, klVars, extVars>>

\* service.RateWait(s.ctx, s.class, r.Method, r.URL.Path, r.URL.Query())
RpRateWait(r) ==
    LET c == req[r].class
        w == RateWait(limiter[c], c, req[r].method, req[r].path, req[r].q, now)
    IN  /\ req[r].pc = "ratewait"
        /\ limiter' = [limiter EXCEPT ![c] = w.lim]
        /\ Set(r, [req[r] EXCEPT !.pc = "send", !.readyAt = w.readyAt])
        /\ UNCHANGED <<now, advances, impl, callVars, bd, hist, svcVars, klVars, extVars>>

\* proxy.ServeHTTP: once the limiter lets go, the transport sends the
\* request upstream (ghost: was the class banned at that moment)
RoundTripSend(r) ==
    /\ req[r].pc = "send"
    /\ now >= req[r].readyAt
    /\ Set(r, [req[r] EXCEPT !.pc = "inflight",
                  !.sentBanned = IsBannedResult(bd[req[r].class], now)])
    /\ UNCHANGED <<now, advances, impl, callVars, bd, limiter, hist, svcVars, klVars, extVars>>

\* ghost: the latest deadline that a recorded 418 with a Retry-After header
\* has promised for the class
Note418(h, b, class, resp, t) ==
    IF /\ resp.status = 418
       /\ ~isApproachingWeightLimit(updateWeightInfo(b, class, resp, t))
       /\ parseRetryAfter(resp, t) # ZeroTime
    THEN [h EXCEPT !.floor[class] = Max(@, parseRetryAfter(resp, t))]
    ELSE h

\* ReverseProxy.ModifyResponse on the upstream's response: CheckResponse,
\* and either the response passes through or it is to be rewritten
ModifyResponse(r, resp) ==
    LET c  == req[r].class
        cr == CheckResponse(bd[c], c, resp, NoErr, now)
    IN  /\ req[r].pc = "inflight"
        /\ impl = "hooks"
        /\ bd' = [bd EXCEPT ![c] = cr.bd]
        /\ hist' = Note418(hist, bd[c], c, resp, now)
        /\ IF cr.ban
           THEN Set(r, [req[r] EXCEPT !.pc = "rewrite", !.ban = TRUE,
                                      !.checks = @ + 1, !.upResp = resp,
                                      !.out = PassThrough(resp)])
           ELSE Set(r, [req[r] EXCEPT !.pc = "done", !.checks = @ + 1,
                                      !.upResp = resp,
                                      !.out = PassThrough(resp)])
        /\ UNCHANGED <<now, advances, impl, callVars, limiter, svcVars, klVars, extVars>>

\* ModifyResponse, the rewrite of a response flagged as a ban: the headers of
\* the upstream response stay, the synthetic ones are set over them
RewriteResponse(r) ==
    LET c   == req[r].class
        st  == GetBanStatus(bd[c])
        out == [req[r].out EXCEPT
                  !.status = 429,
                  !.contentType = "application/json",
                  !.dataSource = "ban-protection",
                  !.cacheControl = "no-store",
                  !.proxyEmpty = TRUE,
                  !.retryAfter = IF st.banned THEN RetryAfterSecs(st.until, now)
                                 ELSE NoHeader,
                  !.backoffUntil = IF st.banned THEN FormatRFC3339(st.until)
                                   ELSE NoTime,
                  !.body = <<EmptyBody(req[r].path)>>,
                  !.why = "ban",
                  !.remaining = IF st.banned THEN st.until - now ELSE 0]
    IN  /\ req[r].pc = "rewrite"
        /\ Set(r, [req[r] EXCEPT !.pc = "done", !.out = out])
        /\ hist' = NoteRetryAfter(hist, c, out, bd[c].recoveryTime)
        /\ UNCHANGED <<now, advances, impl, callVars, bd, limiter, svcVars, klVars, extVars>>

\* ReverseProxy.ErrorHandler on a transport error
ErrorHandler(r, err) ==
    LET c  == req[r].class
        cr == CheckResponse(bd[c], c, NoResp, err, now)
    IN  /\ req[r].pc = "inflight"
        /\ impl = "hooks"
        /\ bd' = [bd EXCEPT ![c] = cr.bd]
        /\ IF cr.ban
           THEN Set(r, [req[r] EXCEPT !.pc = "empty", !.ban = TRUE,
                                      !.checks = @ + 1, !.upErr = err])
           ELSE Set(r, [req[r] EXCEPT !.pc = "done", !.checks = @ + 1,
                                      !.upErr = err, !.out = BadGateway])
        /\ UNCHANGED <<now, advances, impl, callVars, limiter, hist, svcVars, klVars, extVars>>

\* banCheckTransport.RoundTrip on the upstream's answer (a response or an
\* error).  On a ban it writes the empty response itself and returns
\* (nil, nil); ReverseProxy.ServeHTTP then dereferences the nil response and
\* panics, and reverseProxy's deferred recover calls http.Error, whose body
\* follows the one already written.  Otherwise ReverseProxy copies the
\* response, or its default error handler answers 502 with no body.
RoundTrip(r, resp, err) ==
    LET c  == req[r].class
        cr == CheckResponse(bd[c], c, resp, err, now)
        e  == returnEmptyResponseTransport(req[r].path)
    IN  /\ req[r].pc = "inflight"
        /\ impl = "transport"
        /\ (resp = NoResp) # (err = NoErr)
        /\ bd' = [bd EXCEPT ![c] = cr.bd]
        /\ hist' = IF resp # NoResp THEN Note418(hist, bd[c], c, resp, now)
                   ELSE hist
        /\ IF cr.ban
           THEN Set(r, [req[r] EXCEPT !.pc = "done", !.ban = TRUE,
                   !.checks = @ + 1, !.upResp = resp, !.upErr = err,
                   !.out = [e EXCEPT !.body = e.body \o <<"Internal server error\n">>]])
           ELSE IF resp # NoResp
           THEN Set(r, [req[r] EXCEPT !.pc = "done", !.checks = @ + 1,
                   !.upResp = resp, !.out = PassThrough(resp)])
           ELSE Set(r, [req[r] EXCEPT !.pc = "done", !.checks = @ + 1,
                   !.upErr = err,
                   !.out = [NoOut EXCEPT !.status = 502, !.why = "error"]])
        /\ UNCHANGED <<now, advances, impl, callVars, limiter, svcVars, klVars, extVars>>

\* the handler returns and the request's goroutine ends
Return(r) ==
    /\ req[r].pc = "done"
    /\ Set(r, [Idle EXCEPT !.pc = "gone", !.class = req[r].class])
    /\ UNCHANGED <<now, advances, impl, callVars, bd, limiter, hist, svcVars, klVars, extVars>>

\* time passes
Tick(d) ==
    /\ advances < MaxAdvances
    /\ now' = now + d
    /\ advances' = advances + 1
    /\ UNCHANGED <<impl, callVars, bd, limiter, req, hist, svcVars, klVars, extVars>>

-----------------------------------------------------------------------------
(* The stream registry of one Service (package service)                    *)

\* callers inside Service.Klines / Depth / Ticker at the same time
NumCallers == 2
\* stream instances created in one behaviour
MaxStreams == 3

\* the registries of a Service that the model follows, one key of each: the
\* klines registry (the depth and the ticker registry have maps of their
\* own and the same code; keys do not interact)
Kinds == {"klines"}
Callers == 1..NumCallers
StreamIds == 1..MaxStreams
\* no instance: a failed sync.Map.Load, a nil pointer
NoSrv == 0

\* autoRemoveExpired's expiry: 2 * INTERVAL_2_DURATION[si.Interval] for a
\* klines stream (the key's interval is 1m), 2 * time.Minute for the others
Expiry(kind) == 2 * Minute

\* an instance not created yet; starts and stops count the calls of Start
\* and Stop, the other fields are history: was it stored in the map, was it
\* deleted from the map, who created it, who started it
StreamZero == [created |-> FALSE, kind |-> "klines", starts |-> 0, stops |-> 0,
               stored |-> FALSE, removed |-> FALSE, newBy |-> 0, startedBy |-> 0]

CallerIdle == [pc |-> "idle", kind |-> "klines", srv |-> NoSrv]
SweeperIdle == [pc |-> "idle", kind |-> "klines", srv |-> NoSrv]

\* nobody is inside the Service and nothing was ever requested
SvcZero ==
    /\ srvMap = [k \in Kinds |-> NoSrv]
    /\ lastGet = [k \in Kinds |-> NoTime]
    /\ streams = [i \in StreamIds |-> StreamZero]
    /\ caller = [c \in Callers |-> CallerIdle]
    /\ sweeper = SweeperIdle

\* sync.Map.LoadOrStore: the existing value if there is one, else v is stored
LoadOrStoreAlwaysStores(m, k, v) ==
    [map |-> [m EXCEPT ![k] = v], actual |-> v, loaded |-> FALSE]
LoadOrStore(m, k, v) ==
    IF m[k] # NoSrv
    THEN [map |-> m, actual |-> m[k], loaded |-> TRUE]
    ELSE [map |-> [m EXCEPT ![k] = v], actual |-> v, loaded |-> FALSE]

\* the instance the next NewKlinesSrv / NewDepthSrv / NewTickerSrv makes
FreshId == CHOOSE i \in StreamIds :
              ~streams[i].created /\ \A j \in StreamIds : j < i => streams[j].created

\* a goroutine enters Service.Klines, Service.Depth or Service.Ticker (the
\* goroutines are interchangeable: the idle one with the lowest number
\* enters)
SvcEnter(c, kind) ==
    /\ caller[c].pc = "idle"
    /\ \A o \in Callers : o < c => caller[o].pc # "idle"
    /\ caller' = [caller EXCEPT ![c] = [pc |-> "load", kind |-> kind, srv |-> NoSrv]]
    /\ UNCHANGED <<now, advances, impl, callVars, bd, limiter, req, hist, srvMap, lastGet,
                   streams, sweeper, klVars, extVars>>

\* srv, loaded := s.klinesSrv.Load(*si)
SvcLoad(c) ==
    LET k == caller[c].kind
    IN  /\ caller[c].pc = "load"
        /\ caller' = [caller EXCEPT ![c] =
                        IF srvMap[k] # NoSrv
                        THEN [@ EXCEPT !.pc = "lastget", !.srv = srvMap[k]]
                        ELSE [@ EXCEPT !.pc = "loadorstore"]]
        /\ UNCHANGED <<now, advances, impl, callVars, bd, limiter, req, hist, srvMap,
                       lastGet, streams, sweeper, klVars, extVars>>

\* srv, loaded = s.klinesSrv.LoadOrStore(*si, NewKlinesSrv(s.ctx, si))
SvcLoadOrStore(c) ==
    LET k == caller[c].kind
        n == FreshId
        r == LoadOrStore(srvMap, k, n)
    IN  /\ caller[c].pc = "loadorstore"
        /\ \E i \in StreamIds : ~streams[i].created
        /\ srvMap' = r.map
        /\ streams' = [streams EXCEPT ![n] =
                         [@ EXCEPT !.created = TRUE, !.kind = k,
                                   !.stored = ~r.loaded, !.newBy = c]]
        /\ caller' = [caller EXCEPT ![c] =
                        [@ EXCEPT !.pc = IF r.loaded THEN "lastget" ELSE "start",
                                  !.srv = r.actual]]
        /\ UNCHANGED <<now, advances, impl, callVars, bd, limiter, req, hist, lastGet,
                       sweeper, klVars, extVars>>

\* srv.(*KlinesSrv).Start()
SvcStart(c) ==
    /\ caller[c].pc = "start"
    /\ streams' = [streams EXCEPT ![caller[c].srv] =
                     [@ EXCEPT !.starts = @ + 1, !.startedBy = c]]
    /\ caller' = [caller EXCEPT ![c].pc = "lastget"]
    /\ UNCHANGED <<now, advances, impl, callVars, bd, limiter, req, hist, srvMap, lastGet,
                   sweeper, klVars, extVars>>

\* s.lastGetKlines.Store(*si, time.Now())
SvcLastGet(c) ==
    /\ caller[c].pc = "lastget"
    /\ lastGet' = [lastGet EXCEPT ![caller[c].kind] = now]
    /\ caller' = [caller EXCEPT ![c].pc = "get"]
    /\ UNCHANGED <<now, advances, impl, callVars, bd, limiter, req, hist, srvMap, streams,
                   sweeper, klVars, extVars>>

\* return srv.(*KlinesSrv).GetKlines(): the caller reads its instance and
\* leaves
SvcGet(c) ==
    /\ caller[c].pc = "get"
    /\ caller' = [caller EXCEPT ![c] = CallerIdle]
    /\ UNCHANGED <<now, advances, impl, callVars, bd, limiter, req, hist, srvMap, lastGet,
                   streams, sweeper, klVars, extVars>>

\* autoRemoveExpired: Range calls its function on an entry of the map
SweepRange(kind) ==
    /\ sweeper.pc = "idle"
    /\ srvMap[kind] # NoSrv
    /\ sweeper' = [pc |-> "load", kind |-> kind, srv |-> srvMap[kind]]
    /\ UNCHANGED <<now, advances, impl, callVars, bd, limiter, req, hist, srvMap, lastGet,
                   streams, caller, klVars, extVars>>

\* t, ok := s.lastGetKlines.Load(si) and the comparison with the expiry
SweepLoad ==
    LET t == lastGet[sweeper.kind]
    IN  /\ sweeper.pc = "load"
        /\ sweeper' = IF t = NoTime THEN [sweeper EXCEPT !.pc = "storelast"]
                      ELSE IF now - t > Expiry(sweeper.kind)
                      THEN [sweeper EXCEPT !.pc = "dellast"]
                      ELSE SweeperIdle
        /\ UNCHANGED <<now, advances, impl, callVars, bd, limiter, req, hist, srvMap,
                       lastGet, streams, caller, klVars, extVars>>

\* no last-access entry: s.lastGetKlines.Store(si, time.Now())
SweepStoreLast ==
    /\ sweeper.pc = "storelast"
    /\ lastGet' = [lastGet EXCEPT ![sweeper.kind] = now]
    /\ sweeper' = SweeperIdle
    /\ UNCHANGED <<now, advances, impl, callVars, bd, limiter, req, hist, srvMap, streams,
                   caller, klVars, extVars>>

\* s.lastGetKlines.Delete(si)
SweepDeleteLastGet ==
    /\ sweeper.pc = "dellast"
    /\ lastGet' = [lastGet EXCEPT ![sweeper.kind] = NoTime]
    /\ sweeper' = [sweeper EXCEPT !.pc = "delmap"]
    /\ UNCHANGED <<now, advances, impl, callVars, bd, limiter, req, hist, srvMap, streams,
                   caller, klVars, extVars>>

\* the sweeper that forgets s.klinesSrv.Delete(si): the instance stays in the
\* map
SweepDeleteMapKeepsEntry ==
    LET k == sweeper.kind
    IN  /\ sweeper.pc = "delmap"
        /\ streams' = IF srvMap[k] = NoSrv THEN streams
                      ELSE [streams EXCEPT ![srvMap[k]].removed = TRUE]
        /\ sweeper' = [sweeper EXCEPT !.pc = "stop"]
        /\ UNCHANGED <<now, advances, impl, callVars, bd, limiter, req, hist, srvMap,
                       lastGet, caller, klVars, extVars>>

\* s.klinesSrv.Delete(si): whatever the key holds now is deleted
SweepDeleteMap ==
    LET k == sweeper.kind
    IN  /\ sweeper.pc = "delmap"
        /\ srvMap' = [srvMap EXCEPT ![k] = NoSrv]
        /\ streams' = IF srvMap[k] = NoSrv THEN streams
                      ELSE [streams EXCEPT ![srvMap[k]].removed = TRUE]
        /\ sweeper' = [sweeper EXCEPT !.pc = "stop"]
        /\ UNCHANGED <<now, advances, impl, callVars, bd, limiter, req, hist, lastGet,
                       caller, klVars, extVars>>

\* srv.Stop(), on the instance Range passed in
SweepStop ==
    /\ sweeper.pc = "stop"
    /\ streams' = [streams EXCEPT ![sweeper.srv].stops = @ + 1]
    /\ sweeper' = SweeperIdle
    /\ UNCHANGED <<now, advances, impl, callVars, bd, limiter, req, hist, srvMap, lastGet,
                   caller, klVars, extVars>>

-----------------------------------------------------------------------------
(* One kline stream: KlinesSrv.wsHandler and the window it publishes        *)

\* the window's capacity (1000 rows in the source, scaled down)
KlineCap == 3
\* candles' open times are 1..MaxOpenTime
MaxOpenTime == 5

OpenTimes == 1..MaxOpenTime
\* what tells an update of a candle from the candle it updates: its close
\* price; the REST bootstrap's rows carry 0
Closes == {1, 2}

\* a nil *list.List, a nil slice
NilRows == [isNil |-> TRUE, rows |-> <<>>, evicted |-> 0]

\* NewKlinesSrv: no list, nothing published
KlZero ==
    /\ klinesList = NilRows
    /\ klinesArr = NilRows
    /\ wsPanic = FALSE

StrictlyIncreasing(rows) ==
    \A i \in 1..(Len(rows) - 1) : rows[i].openTime < rows[i + 1].openTime

\* what the REST bootstrap may return: at most KlineCap candles, strictly
\* increasing in open time (none at all included)
Bootstraps ==
    { b \in UNION { [1..n -> [openTime : OpenTimes, close : {0}]] : n \in 0..KlineCap } :
        StrictlyIncreasing(b) }

\* wsHandler, the merge: a newer candle is pushed to the back, an update of
\* the last candle replaces it, an older candle is dropped
MergeKlineAlwaysPushes(rows, k) == Append(rows, k)
\* the merge that keeps the last candle when its update arrives
MergeKlineKeepsBack(rows, k) ==
    IF rows[Len(rows)].openTime < k.openTime THEN Append(rows, k) ELSE rows
MergeKline(rows, k) ==
    IF rows[Len(rows)].openTime < k.openTime THEN Append(rows, k)
    ELSE IF rows[Len(rows)].openTime = k.openTime
    THEN [rows EXCEPT ![Len(rows)] = k]
    ELSE rows

\* the window that is never trimmed
EvictFrontNever(rows) == rows

\* wsHandler, the loop that removes rows from the front while the list is
\* longer than the capacity
RECURSIVE EvictFront(_)
EvictFront(rows) ==
    IF Len(rows) > KlineCap THEN EvictFront(Tail(rows)) ELSE rows

\* initKlineData: an empty list when the class is banned or a ban is
\* detected, else the rows of the REST answer
initKlineData(banned, boot) == IF banned THEN <<>> ELSE boot

\* KlinesSrv.wsHandler(event): the bootstrap when there is no list, then the
\* merge, the eviction and the publication of the snapshot.  On an empty
\* list klinesList.Back() is nil and the handler panics before it publishes.
wsHandler(k, banned, boot) ==
    LET rows0  == IF klinesList.isNil THEN initKlineData(banned, boot)
                  ELSE klinesList.rows
        merged == MergeKline(rows0, k)
        rows1  == EvictFront(merged)
        ev     == (IF klinesList.isNil THEN 0 ELSE klinesList.evicted)
                  + (Len(merged) - Len(rows1))
    IN  /\ ~wsPanic
        \* banned and boot are read only when there is no list
        /\ klinesList.isNil \/ (~banned /\ boot = <<>>)
        /\ IF rows0 = <<>>
           THEN /\ klinesList' = [isNil |-> FALSE, rows |-> <<>>, evicted |-> 0]
                /\ wsPanic' = TRUE
                /\ UNCHANGED klinesArr
           ELSE /\ klinesList' = [isNil |-> FALSE, rows |-> rows1, evicted |-> ev]
                /\ klinesArr' = [isNil |-> FALSE, rows |-> rows1, evicted |-> ev]
                /\ UNCHANGED wsPanic
        /\ UNCHANGED <<now, advances, impl, callVars, bd, limiter, req, hist, svcVars,
                       extVars>>

\* KlinesSrv.Start, the loop after the websocket disconnected: the list is
\* dropped, the next event bootstraps again
wsReconnect ==
    /\ ~wsPanic
    /\ ~klinesList.isNil
    /\ klinesList' = NilRows
    /\ UNCHANGED <<now, advances, impl, callVars, bd, limiter, req, hist, svcVars,
                   klinesArr, wsPanic, extVars>>

-----------------------------------------------------------------------------
(* The answers the handlers build from a snapshot                          *)

\* how far a candle's close time lies behind its open time
Spans == {1, 2}

\* the candles of a snapshot as the klines handler reads them
ViewCandles ==
    { [openTime |-> o, open |-> 0, high |-> 3, low |-> 0, close |-> c,
       closeTime |-> o + s] : o \in OpenTimes, c \in Closes, s \in Spans }

\* the snapshots Service.Klines may return (not nil): at most the
\* capacity's number of candles, strictly increasing in open time
ViewSnapshots ==
    { d \in UNION { [1..n -> ViewCandles] : n \in 0..KlineCap } :
        StrictlyIncreasing(d) }

\* the limits that pass the klines handler's query checks
ViewLimits == 1..(KlineCap + 1)

\* Handler.klines: the last minLen rows of the snapshot, in its order
KlinesTailFromHead(data, limitInt) ==
    SubSeq(data, 1, Min(Len(data), limitInt))
KlinesTail(data, limitInt) ==
    LET dataLen == Len(data)
        minLen  == Min(dataLen, limitInt)
    IN  SubSeq(data, dataLen - minLen + 1, dataLen)

\* Handler.klines: the candle made up from the last one
fakeKline(lastData) ==
    [openTime |-> lastData.closeTime + 1,
     open |-> lastData.close, high |-> lastData.close,
     low |-> lastData.close, close |-> lastData.close,
     closeTime |-> lastData.closeTime + 1
                       + (lastData.closeTime - lastData.openTime)]

\* Handler.klines: does the handler make up a candle
FakeApplies(data, currentTime, enableFakeKline) ==
    enableFakeKline /\ Len(data) > 0 /\ currentTime > data[Len(data)].closeTime

\* Handler.klines from the snapshot to the rows it encodes.  klines has
\* minLen rows, so len(klines) >= minLen holds whenever it is asked and the
\* made-up candle always takes the place of the last row.
KlinesRows(data, limitInt, currentTime, enableFakeKline) ==
    LET minLen == Min(Len(data), limitInt)
        klines == KlinesTail(data, limitInt)
    IN  IF FakeApplies(data, currentTime, enableFakeKline)
        THEN IF Len(klines) >= minLen
             THEN [klines EXCEPT ![Len(klines)] = fakeKline(data[Len(data)])]
             ELSE Append(klines, fakeKline(data[Len(data)]))
        ELSE klines

\* no handler has built an answer from a snapshot
NoView == [kind |-> "", data |-> <<>>, limitInt |-> 0, fake |-> FALSE,
           rows |-> <<>>, bids |-> <<>>, asks |-> <<>>, dataBids |-> <<>>,
           dataAsks |-> <<>>]


\* Handler.klines from the snapshot on: the rows are encoded and written
\* with Data-Source: websocket
KlinesView(data, limitInt, enableFakeKline) ==
    /\ view.kind = ""
    /\ view' = [NoView EXCEPT !.kind = "klines", !.data = data,
                   !.limitInt = limitInt, !.fake = enableFakeKline,
                   !.rows = KlinesRows(data, limitInt, now, enableFakeKline)]
    /\ UNCHANGED <<fwdVars, callVars, svcVars, klVars, ks, rd, exch, exRd>>

\* the most levels a side of a depth snapshot holds
MaxLevels == 6

\* a depth snapshot's sides: bids descending by price, asks ascending
BidLevels(n) == [i \in 1..n |-> [price |-> 100 - i, quantity |-> i]]
AskLevels(n) == [i \in 1..n |-> [price |-> 100 + i, quantity |-> i]]

\* the limits that pass the depth handler's query checks
DepthLimits == 5..20

\* Handler.depth: one length for both sides, the least of the two sides'
\* lengths and the limit
DepthMinLen(bids, asks, limitInt) ==
    LET bidsLen == Len(bids)
        asksLen == Len(asks)
        minLen0 == bidsLen
        minLen1 == IF asksLen < minLen0 THEN asksLen ELSE minLen0
    IN  IF minLen1 > limitInt THEN limitInt ELSE minLen1

\* Handler.depth from the snapshot on: the first minLen levels of each side
\* are copied, encoded and written with Data-Source: websocket
DepthView(bids, asks, limitInt) ==
    LET minLen == DepthMinLen(bids, asks, limitInt)
    IN  /\ view.kind = ""
        /\ view' = [NoView EXCEPT !.kind = "depth", !.limitInt = limitInt,
                       !.dataBids = bids, !.dataAsks = asks,
                       !.bids = [i \in 1..minLen |-> bids[i]],
                       !.asks = [i \in 1..minLen |-> asks[i]]]
        /\ UNCHANGED <<fwdVars, callVars, svcVars, klVars, ks, rd, exch, exRd>>

\* the handler returns
ViewReturn ==
    /\ view.kind # ""
    /\ view' = NoView
    /\ UNCHANGED <<fwdVars, callVars, svcVars, klVars, ks, rd, exch, exRd>>

-----------------------------------------------------------------------------
(* One KlinesSrv with its readers: the initialization latch                *)

\* goroutines inside GetKlines at the same time
Readers == 1..NumCallers

\* no websocket event is being handled
NoEvent == [openTime |-> 0, close |-> 0]

\* NewKlinesSrv: s.ctx is not cancelled, s.initCtx is not done, Start has
\* not been called; ws is the position of the websocket's goroutine inside
\* wsHandler, banEmpty tells that initKlineData left an empty list,
\* bannedDial that s.connect() was called while the BanDetector held the
\* stream's class (SPOT) banned
KsZero == [started |-> FALSE, cancelled |-> FALSE, initDone |-> FALSE,
           ws |-> "idle", ev |-> NoEvent, banEmpty |-> FALSE,
           bannedDial |-> FALSE]

RdIdle == [pc |-> "idle", got |-> NilRows, passed |-> FALSE]

\* KlinesSrv.Start: the goroutine's first iteration, which drops the list
\* and calls s.connect() without asking the BanDetector
KsStart ==
    /\ ~ks.started
    /\ ks' = [ks EXCEPT !.started = TRUE,
                        !.bannedDial = IsBannedResult(bd[SPOT], now)]
    /\ UNCHANGED <<fwdVars, callVars, svcVars, klVars, view, rd, exch, exRd>>

\* KlinesSrv.Stop, or the cancellation of the Service's context: s.ctx is
\* cancelled (s.initCtx, a child of context.Background(), is not); the
\* Start goroutine closes the websocket
KsStop ==
    /\ ks.started /\ ~ks.cancelled
    /\ ks' = [ks EXCEPT !.cancelled = TRUE]
    /\ UNCHANGED <<fwdVars, callVars, svcVars, klVars, view, rd, exch, exRd>>

\* the websocket delivers an event and wsHandler is entered
WsEvent(k) ==
    /\ ks.started /\ ~ks.cancelled /\ ~wsPanic
    /\ ks.ws = "idle"
    /\ ks' = [ks EXCEPT !.ws = IF klinesList.isNil THEN "init" ELSE "merge",
                        !.ev = k]
    /\ UNCHANGED <<fwdVars, callVars, svcVars, klVars, view, rd, exch, exRd>>

\* wsHandler, s.initKlineData(): it returns with an empty list when the
\* class is banned or the REST answer is taken for a ban, and with the rows
\* of the REST answer when the fetch succeeds (which it cannot once s.ctx is
\* cancelled); a failed fetch is tried again.  The deferred s.initDone()
\* runs as initKlineData returns.
WsInit(banned, boot) ==
    /\ ks.ws = "init"
    /\ banned \/ ~ks.cancelled
    /\ klinesList' = [isNil |-> FALSE, rows |-> initKlineData(banned, boot),
                      evicted |-> 0]
    /\ ks' = [ks EXCEPT !.ws = "merge", !.initDone = TRUE,
                        !.banEmpty = @ \/ banned]
    /\ UNCHANGED <<fwdVars, callVars, svcVars, klinesArr, wsPanic, view, rd, exch, exRd>>

\* wsHandler after initKlineData: the merge, the eviction, and under the
\* write lock s.klinesArr = klinesArr; on an empty list klinesList.Back()
\* is nil and the goroutine panics
WsMerge ==
    LET merged == MergeKline(klinesList.rows, ks.ev)
        rows1  == EvictFront(merged)
        ev     == klinesList.evicted + (Len(merged) - Len(rows1))
    IN  /\ ks.ws = "merge"
        /\ IF klinesList.rows = <<>>
           THEN /\ wsPanic' = TRUE
                /\ ks' = [ks EXCEPT !.ws = "gone", !.ev = NoEvent]
                /\ UNCHANGED <<klinesList, klinesArr>>
           ELSE /\ klinesList' = [isNil |-> FALSE, rows |-> rows1, evicted |-> ev]
                /\ klinesArr' = [isNil |-> FALSE, rows |-> rows1, evicted |-> ev]
                /\ ks' = [ks EXCEPT !.ws = "idle", !.ev = NoEvent]
                /\ UNCHANGED wsPanic
        /\ UNCHANGED <<fwdVars, callVars, svcVars, view, rd, exch, exRd>>

\* KlinesSrv.Start, the loop after the websocket disconnected: the next
\* iteration drops the list and calls s.connect() again
KsReconnect ==
    /\ ks.started /\ ~ks.cancelled /\ ks.ws = "idle"
    /\ ~klinesList.isNil
    /\ klinesList' = NilRows
    /\ ks' = [ks EXCEPT !.bannedDial = @ \/ IsBannedResult(bd[SPOT], now)]
    /\ UNCHANGED <<fwdVars, callVars, svcVars, klinesArr, wsPanic, view, rd,
                   exch, exRd>>

\* a goroutine calls GetKlines and waits on <-s.initCtx.Done()
RdEnter(r) ==
    /\ rd[r].pc = "idle"
    /\ \A o \in Readers : o < r => rd[o].pc # "idle"
    /\ rd' = [rd EXCEPT ![r] = [RdIdle EXCEPT !.pc = "wait"]]
    /\ UNCHANGED <<fwdVars, callVars, svcVars, klVars, view, ks, exch, exRd>>

\* GetKlines once s.initCtx is done: the read lock, return s.klinesArr
RdGet(r) ==
    /\ rd[r].pc = "wait"
    /\ ks.initDone
    /\ rd' = [rd EXCEPT ![r] = [pc |-> "done", got |-> klinesArr,
                                passed |-> TRUE]]
    /\ UNCHANGED <<fwdVars, callVars, svcVars, klVars, view, ks, exch, exRd>>

\* the caller of GetKlines goes on with what it got
RdReturn(r) ==
    /\ rd[r].pc = "done"
    /\ rd' = [rd EXCEPT ![r] = RdIdle]
    /\ UNCHANGED <<fwdVars, callVars, svcVars, klVars, view, ks, exch, exRd>>

-----------------------------------------------------------------------------
(* The ExchangeInfoSrv: its refresh loop, its latch and its readers        *)

\* polls of the upstream in one behaviour
MaxPolls == 3

\* s.refreshDur
RefreshDur == 60 * Second

\* a nil body; a body is told by the status of the response it came with
\* and by the poll that fetched it
NoBody == [status |-> 0, poll |-> 0]

\* history of the last call of refreshExchangeInfo: how it ended ("skipped"
\* for a ban found at entry, "ban" for an answer taken for a ban, "failed"
\* for a transport error, "stored"), the body before it, the answer's status
NoPoll == [how |-> "", before |-> NoBody, status |-> 0, fired |-> FALSE]

\* NewExchangeInfoSrv, and NewService entering Start: the first refresh is
\* due at once
ExchZero(class) ==
    [class |-> class, exchangeInfo |-> NoBody, initDone |-> FALSE,
     pc |-> "refresh", nextAt |-> 0, polls |-> 0, last |-> NoPoll]

ExRdIdle == [pc |-> "idle", got |-> NoBody]

\* what http.Get may bring: an answer (of any status, with a body) or an
\* error
ExResponses ==
    [status : {200, 500}, retryAfter : {<<>>}, usedWeight : {<<>>},
     bodyMsgDigits : {<<>>}]
    \cup [status : {418, 429}, retryAfter : {<<>>}, usedWeight : {<<>>},
          bodyMsgDigits : {<<>>}]
ExErrors == { <<"dial tcp", "connection refused">> }

\* the store at the end of refreshExchangeInfo: the status of the answer is
\* not looked at
StoreExchangeInfo(e, data) ==
    [e EXCEPT !.initDone = @ \/ e.exchangeInfo = NoBody, !.exchangeInfo = data]

\* ExchangeInfoSrv.refreshExchangeInfo, called from reTryRefreshExchangeInfo:
\* nothing is fetched while the class is banned; else RateWait, http.Get,
\* CheckResponse, and without a ban and without an error the body is stored
\* and the first store fires the latch.  nil is returned (and the loop left
\* for the timer) after a skip, after a store and after an answer taken for
\* a ban; an error is tried again.
refreshExchangeInfo(resp, err) ==
    LET c    == exch.class
        w    == RateWait(limiter[c], c, "GET",
                         IF c = SPOT THEN "/api/v3/exchangeInfo"
                         ELSE "/fapi/v1/exchangeInfo", NoQuery, now)
        cr   == CheckResponse(bd[c], c, resp, err, now)
        data == [status |-> resp.status, poll |-> exch.polls + 1]
        tmr  == [exch EXCEPT !.pc = "timer", !.nextAt = now + RefreshDur]
    IN  /\ exch.pc = "refresh"
        /\ exch.polls < MaxPolls
        /\ (resp = NoResp) # (err = NoErr)
        /\ IF IsBannedResult(bd[c], now)
           THEN /\ bd' = [bd EXCEPT ![c] = IsBannedState(@, now)]
                /\ exch' = [tmr EXCEPT !.last = [NoPoll EXCEPT !.how = "skipped",
                                            !.before = exch.exchangeInfo]]
                /\ UNCHANGED limiter
           ELSE /\ bd' = [bd EXCEPT ![c] = cr.bd]
                /\ limiter' = [limiter EXCEPT ![c] = w.lim]
                /\ exch' =
                     IF cr.ban
                     THEN [(IF err = NoErr THEN tmr ELSE exch) EXCEPT
                              !.polls = @ + 1,
                              !.last = [NoPoll EXCEPT !.how = "ban",
                                           !.before = exch.exchangeInfo,
                                           !.status = resp.status]]
                     ELSE IF err # NoErr
                     THEN [exch EXCEPT
                              !.polls = @ + 1,
                              !.last = [NoPoll EXCEPT !.how = "failed",
                                           !.before = exch.exchangeInfo]]
                     ELSE [StoreExchangeInfo(tmr, data) EXCEPT
                              !.polls = @ + 1,
                              !.last = [how |-> "stored",
                                        before |-> exch.exchangeInfo,
                                        status |-> resp.status,
                                        fired |-> exch.exchangeInfo = NoBody]]
        /\ UNCHANGED <<now, advances, impl, callVars, req, hist, svcVars, klVars, view,
                       ks, rd, exRd>>

\* Start's goroutine: rTimer fires after s.refreshDur
ExTimer ==
    /\ exch.pc = "timer"
    /\ now >= exch.nextAt
    /\ exch' = [exch EXCEPT !.pc = "refresh"]
    /\ UNCHANGED <<fwdVars, callVars, svcVars, klVars, view, ks, rd, exRd>>

\* a goroutine calls GetExchangeInfo and waits on <-s.initCtx.Done()
ExEnter(r) ==
    /\ exRd[r].pc = "idle"
    /\ \A o \in Readers : o < r => exRd[o].pc # "idle"
    /\ exRd' = [exRd EXCEPT ![r] = [ExRdIdle EXCEPT !.pc = "wait"]]
    /\ UNCHANGED <<fwdVars, callVars, svcVars, klVars, view, ks, rd, exch>>

\* GetExchangeInfo once s.initCtx is done: the read lock, return
\* s.exchangeInfo
ExGet(r) ==
    /\ exRd[r].pc = "wait"
    /\ exch.initDone
    /\ exRd' = [exRd EXCEPT ![r] = [pc |-> "done", got |-> exch.exchangeInfo]]
    /\ UNCHANGED <<fwdVars, callVars, svcVars, klVars, view, ks, rd, exch>>

\* the caller of GetExchangeInfo goes on with the body
ExReturn(r) ==
    /\ exRd[r].pc = "done"
    /\ exRd' = [exRd EXCEPT ![r] = ExRdIdle]
    /\ UNCHANGED <<fwdVars, callVars, svcVars, klVars, view, ks, rd, exch>>

-----------------------------------------------------------------------------
(* Single calls of the rate limiter and of the BanDetector, with what they *)
(* were given and what they found                                          *)

\* calls recorded in one behaviour
MaxCalls == 1

\* no RateWait call yet.  before is both buckets as the call found them
NoRateCall == [n |-> 0, class |-> SPOT, method |-> "", path |-> "",
               q |-> NoQuery, weight |-> 0, at |-> ZeroTime, readyAt |-> ZeroTime,
               before |-> [c \in Classes |-> LimiterZero]]

\* service.RateWait(ctx, class, method, path, query) with a context that is
\* never cancelled: calculateWeight, limiter.Allow(), limiter.WaitN(weight)
RateWaitCall(class, method, path, q) ==
    LET w == RateWait(limiter[class], class, method, path, q, now)
    IN  /\ rateCall.n < MaxCalls
        /\ limiter' = [limiter EXCEPT ![class] = w.lim]
        /\ rateCall' = [n |-> rateCall.n + 1, class |-> class, method |-> method,
                        path |-> path, q |-> q,
                        weight |-> calculateWeight(path, method, q),
                        at |-> now, readyAt |-> w.readyAt, before |-> limiter]
        /\ UNCHANGED <<now, advances, impl, bd, req, hist, svcVars, klVars,
                       extVars, banCall, sup, shut>>

\* no BanDetector call yet.  before is the class's state as the call found it
NoBanCall == [n |-> 0, op |-> "", class |-> SPOT, resp |-> NoResp, err |-> NoErr,
              at |-> ZeroTime, before |-> BanDetectorZero, result |-> FALSE]

\* calls of the BanDetector recorded in one behaviour
MaxBanCalls == 2

\* BanDetector.IsBanned(class), called at now
IsBannedCall(class) ==
    /\ banCall.n < MaxBanCalls
    /\ bd' = [bd EXCEPT ![class] = IsBannedState(@, now)]
    /\ banCall' = [n |-> banCall.n + 1, op |-> "IsBanned", class |-> class,
                   resp |-> NoResp, err |-> NoErr, at |-> now,
                   before |-> bd[class],
                   result |-> IsBannedResult(bd[class], now)]
    /\ UNCHANGED <<now, advances, impl, limiter, req, hist, svcVars, klVars,
                   extVars, rateCall, sup, shut>>

\* the CheckResponse that updates the state of both classes
CheckResponseCallBothClasses(class, resp, err) ==
    LET cr == CheckResponse(bd[class], class, resp, err, now)
    IN  /\ banCall.n < MaxBanCalls
        /\ bd' = [c \in Classes |-> CheckResponse(bd[c], c, resp, err, now).bd]
        /\ banCall' = [n |-> banCall.n + 1, op |-> "CheckResponse",
                       class |-> class, resp |-> resp, err |-> err, at |-> now,
                       before |-> bd[class], result |-> cr.ban]
        /\ UNCHANGED <<now, advances, impl, limiter, req, hist, svcVars, klVars,
                       extVars, rateCall, sup, shut>>

\* BanDetector.CheckResponse(class, resp, err), called at now
CheckResponseCall(class, resp, err) ==
    LET cr == CheckResponse(bd[class], class, resp, err, now)
    IN  /\ banCall.n < MaxBanCalls
        /\ bd' = [bd EXCEPT ![class] = cr.bd]
        /\ banCall' = [n |-> banCall.n + 1, op |-> "CheckResponse",
                       class |-> class, resp |-> resp, err |-> err, at |-> now,
                       before |-> bd[class], result |-> cr.ban]
        /\ UNCHANGED <<now, advances, impl, limiter, req, hist, svcVars, klVars,
                       extVars, rateCall, sup, shut>>

\* Start() calls on one KlinesSrv, and so supervisor goroutines, at most
MaxStarts == 2
\* calls of s.connect() in one behaviour
MaxDials == 3

Sups == 1..MaxStarts

\* the goroutines KlinesSrv.Start has spawned for one KlinesSrv: pc is the
\* goroutine's place in the loop ("none" not spawned, "top" before
\* s.connect(), "select" in the select on s.ctx.Done() and doneC, "delay" in
\* d.Delay(), "blocked" in the send on stopC, "exited" returned), socket is
\* the websocket its last s.connect() opened, dials counts s.connect()
SupZero == [pc |-> [g \in Sups |-> "none"],
            socket |-> [g \in Sups |-> "none"],
            dials |-> 0]

\* KlinesSrv.Start(): go func() { for ... }(), whatever was started before
StartCall ==
    /\ \E g \in Sups :
          /\ sup.pc[g] = "none"
          /\ \A o \in Sups : o < g => sup.pc[o] # "none"
          /\ sup' = [sup EXCEPT !.pc[g] = "top"]
    /\ ks' = [ks EXCEPT !.started = TRUE]
    /\ UNCHANGED <<fwdVars, svcVars, klVars, view, rd, exch, exRd, rateCall,
                   banCall, shut>>

\* Start's loop: s.klinesList = nil under the lock, then s.connect(), which
\* opens a websocket (ok) or returns an error; neither looks at s.ctx
SupConnect(g, ok) ==
    /\ sup.pc[g] = "top"
    /\ sup.dials < MaxDials
    /\ klinesList' = NilRows
    /\ sup' = [sup EXCEPT !.pc[g] = IF ok THEN "select" ELSE "delay",
                          !.socket[g] = IF ok THEN "open" ELSE "none",
                          !.dials = @ + 1]
    /\ ks' = [ks EXCEPT !.bannedDial = @ \/ IsBannedResult(bd[SPOT], now)]
    /\ UNCHANGED <<fwdVars, svcVars, klinesArr, wsPanic, view, rd, exch, exRd,
                   rateCall, banCall, shut>>

\* d.Delay() returns: a sleep that does not look at s.ctx
SupDelay(g) ==
    /\ sup.pc[g] = "delay"
    /\ sup' = [sup EXCEPT !.pc[g] = "top"]
    /\ UNCHANGED <<fwdVars, svcVars, klVars, extVars, rateCall, banCall, shut>>

\* the upstream closes the websocket between two events: doneC is closed
SupDisconnect(g) ==
    /\ sup.socket[g] = "open"
    /\ ks.ws = "idle"
    /\ sup' = [sup EXCEPT !.socket[g] = "closed"]
    /\ UNCHANGED <<fwdVars, svcVars, klVars, extVars, rateCall, banCall, shut>>

\* Start's select.  On s.ctx.Done() it sends on stopC and returns: the
\* websocket's goroutine receives and closes the connection; when doneC is
\* closed already nobody may be left to receive (the library's goroutines
\* are not part of this source), and the send returns or blocks.  On doneC
\* it goes to d.Delay().  Go picks either case when both are ready.
SupSelect(g) ==
    /\ sup.pc[g] = "select"
    /\ \/ /\ ks.cancelled
          /\ sup.socket[g] = "open"
          /\ sup' = [sup EXCEPT !.pc[g] = "exited", !.socket[g] = "closed"]
       \/ /\ ks.cancelled
          /\ sup.socket[g] = "closed"
          /\ \E p \in {"exited", "blocked"} : sup' = [sup EXCEPT !.pc[g] = p]
       \/ /\ sup.socket[g] = "closed"
          /\ sup' = [sup EXCEPT !.pc[g] = "delay"]
    /\ UNCHANGED <<fwdVars, svcVars, klVars, extVars, rateCall, banCall, shut>>

\* Service.Stop has not been called: s.ctx is live, cleanupRoutine and the
\* goroutine of ExchangeInfoSrv.Start are running.  returned tells that
\* Service.Stop has returned.
ShutZero == [cancelled |-> FALSE, returned |-> FALSE,
             cleanupExited |-> FALSE, pollerExited |-> FALSE]

\* Service.Stop(): s.cancel(), which cancels the context of every child
\* (each KlinesSrv's s.ctx among them); Stop() on every stream in the maps,
\* which cancels again; exchangeInfoSrv.Stop(), which does nothing.  It
\* waits for nobody.
ServiceStop ==
    /\ ~shut.cancelled
    /\ shut' = [shut EXCEPT !.cancelled = TRUE, !.returned = TRUE]
    /\ ks' = [ks EXCEPT !.cancelled = TRUE]
    /\ streams' = [i \in StreamIds |->
                     IF \E k \in Kinds : srvMap[k] = i
                     THEN [streams[i] EXCEPT !.stops = @ + 1] ELSE streams[i]]
    /\ UNCHANGED <<fwdVars, srvMap, lastGet, caller, sweeper, klVars, view, rd,
                   exch, exRd, rateCall, banCall, sup>>

\* cleanupRoutine's select takes <-s.ctx.Done() and returns
CleanupExit ==
    /\ shut.cancelled /\ ~shut.cleanupExited
    /\ sweeper.pc = "idle"
    /\ shut' = [shut EXCEPT !.cleanupExited = TRUE]
    /\ UNCHANGED <<fwdVars, svcVars, klVars, extVars, rateCall, banCall, sup>>

\* the select of ExchangeInfoSrv.Start's goroutine takes <-s.ctx.Done() and
\* returns
PollerExit ==
    /\ shut.cancelled /\ ~shut.pollerExited
    /\ exch.pc = "timer"
    /\ shut' = [shut EXCEPT !.pollerExited = TRUE]
    /\ UNCHANGED <<fwdVars, svcVars, klVars, extVars, rateCall, banCall, sup>>

\* nothing has been called yet
CallZero ==
    /\ rateCall = NoRateCall
    /\ banCall = NoBanCall
    /\ sup = SupZero
    /\ shut = ShutZero

\* nothing beyond the forwarder and the registry has acted
ExtZero ==
    /\ view = NoView
    /\ ks = KsZero
    /\ rd = [r \in Readers |-> RdIdle]
    /\ exch = ExchZero(SPOT)
    /\ exRd = [r \in Readers |-> ExRdIdle]
    /\ CallZero

-----------------------------------------------------------------------------
(* The forwarder under concurrent requests: the specification Spec         *)

Impls == {"hooks", "transport"}

HistZero == [floor |-> [c \in Classes |-> ZeroTime],
             lastUntil |-> [c \in Classes |-> NoTime],
             lastRetry |-> [c \in Classes |-> 0],
             rose |-> [c \in Classes |-> FALSE]]

\* the process has started: no request yet, no ban, full buckets
FwdZero ==
    /\ now = StartTime
    /\ advances = 0
    /\ bd = [c \in Classes |-> BanDetectorZero]
    /\ limiter = [c \in Classes |-> LimiterZero]
    /\ req = [r \in Reqs |-> Idle]
    /\ hist = HistZero

Init ==
    /\ impl \in Impls
    /\ FwdZero
    /\ SvcZero
    /\ KlZero
    /\ ExtZero

\* the requests of this specification: ones that reach the forwarder
FwdRequests ==
    { [path |-> "/api/v3/account", q |-> NoQuery],
      [path |-> "/api/v3/klines",
       q |-> [NoQuery EXCEPT !.symbol = <<"B">>, !.interval = <<"1", "m">>,
                             !.startTime = <<"1">>]],
      [path |-> "/api/v3/depth",
       q |-> [NoQuery EXCEPT !.symbol = <<"B">>, !.limit = <<"1", "0", "0">>]] }

\* the upstream's answers
UsedWeightValues == {<<>>, <<"1", "0", "8", "1">>}
Responses ==
    [status : {418}, retryAfter : {<<"1">>, <<"2">>},
     usedWeight : {<<>>}, bodyMsgDigits : {<<>>}]
    \cup [status : {429}, retryAfter : {<<>>, <<"1">>},
          usedWeight : {<<>>}, bodyMsgDigits : {<<>>}]
    \cup [status : {200}, retryAfter : {<<>>},
          usedWeight : UsedWeightValues, bodyMsgDigits : {<<>>}]
Errors == { <<"dial tcp", "connection refused">>, <<"context canceled">> }

Next ==
    \/ \E r \in Reqs, c \in Classes, x \in FwdRequests :
            Router(r, c, "GET", x.path, x.q)
    \/ \E r \in Reqs : KlinesHandler(r)
    \/ \E r \in Reqs : DepthHandler(r)
    \/ \E r \in Reqs : RpIsBanned(r)
    \/ \E r \in Reqs : RpGetBanStatus(r)
    \/ \E r \in Reqs : ReturnEmpty(r)
    \/ \E r \in Reqs : RpRateWait(r)
    \/ \E r \in Reqs : RoundTripSend(r)
    \/ \E r \in Reqs, resp \in Responses : ModifyResponse(r, resp)
    \/ \E r \in Reqs : RewriteResponse(r)
    \/ \E r \in Reqs, err \in Errors : ErrorHandler(r, err)
    \/ \E r \in Reqs, resp \in Responses : RoundTrip(r, resp, NoErr)
    \/ \E r \in Reqs, err \in Errors : RoundTrip(r, NoResp, err)
    \/ \E r \in Reqs : Return(r)
    \/ \E d \in Deltas : Tick(d)

Spec == Init /\ [][Next]_vars

-----------------------------------------------------------------------------
(* Properties of the forwarder and the ban detector                        *)

\* C1: the forwarder never sends a request upstream for a class at a moment
\* when the ban detector holds that class banned with its recovery time
\* still ahead (the ban check and the sending are atomic with respect to
\* the ban updates of other requests).
C1_NoSendWhileBanned ==
    \A r \in Reqs : req[r].pc = "inflight" => ~req[r].sentBanned

\* the body the claims give for a synthetic empty response, by path
ClaimedEmptyBody(path) ==
    IF path \in {"/api/v3/klines", "/fapi/v1/klines"} THEN "[]"
    ELSE IF path \in {"/api/v3/depth", "/fapi/v1/depth"}
    THEN "{\"lastUpdateId\":0,\"bids\":[],\"asks\":[]}"
    ELSE "{}"

\* C2: every response the proxy generates because the class is banned (the
\* klines handler's ban check, the forwarder's pre-check, its
\* transport-error path, its response-rewrite path) has status 429,
\* Data-Source: ban-protection, X-Proxy-Empty: 1 and the empty body of its
\* path.
C2_BanResponseShape ==
    \A r \in Reqs :
        (req[r].pc = "done" /\ req[r].out.why = "ban") =>
            /\ req[r].out.status = 429
            /\ req[r].out.dataSource = "ban-protection"
            /\ req[r].out.proxyEmpty
            /\ req[r].out.body = <<ClaimedEmptyBody(req[r].path)>>

\* C3: once CheckResponse has recorded a 418 with Retry-After: s at time t,
\* the class stays banned (IsBanned true, so forwards get the synthetic
\* response) at every time in [t, t+s), whatever other CheckResponse calls
\* are processed meanwhile: no later trigger moves the deadline earlier.
C3_BanHoldsUntilDeadline ==
    \A c \in Classes :
        now < hist.floor[c] => (bd[c].banned /\ now < bd[c].recoveryTime)

\* C4: while the class is banned with deadline d, the Retry-After of each
\* synthetic empty response is the number of seconds remaining until d (at
\* least 1), and over successive responses for the same deadline it never
\* rises.  (Read on the responses of the ReverseProxy-hooks handler, which
\* sets the header.)
C4_RetryAfterCountsDown ==
    /\ \A r \in Reqs :
        (/\ impl = "hooks" /\ req[r].pc = "done" /\ req[r].out.why = "ban"
         /\ req[r].out.remaining > 0) =>
            /\ req[r].out.retryAfter >= 1
            /\ req[r].out.retryAfter * Second < req[r].out.remaining + Second
            /\ req[r].out.retryAfter * Second > req[r].out.remaining - Second
    /\ impl = "hooks" => \A c \in Classes : ~hist.rose[c]

-----------------------------------------------------------------------------
(* The registry under concurrent callers and the sweeper: SpecRegistry      *)

\* the steps the clock advances by: two of them exceed the expiry
RegDeltas == {Minute + Second}

InitRegistry ==
    /\ impl = "transport"
    /\ FwdZero
    /\ SvcZero
    /\ KlZero
    /\ ExtZero

NextRegistry ==
    \/ \E c \in Callers, k \in Kinds : SvcEnter(c, k)
    \/ \E c \in Callers : SvcLoad(c)
    \/ \E c \in Callers : SvcLoadOrStore(c)
    \/ \E c \in Callers : SvcStart(c)
    \/ \E c \in Callers : SvcLastGet(c)
    \/ \E c \in Callers : SvcGet(c)
    \/ \E k \in Kinds : SweepRange(k)
    \/ SweepLoad
    \/ SweepStoreLast
    \/ SweepDeleteLastGet
    \/ SweepDeleteMap
    \/ SweepStop
    \/ \E d \in RegDeltas : Tick(d)

SpecRegistry == InitRegistry /\ [][NextRegistry]_vars

\* the instances of a kind that were stored in the map
Stored(k) ==
    {i \in StreamIds : streams[i].created /\ streams[i].kind = k /\ streams[i].stored}
\* the sweeper has deleted no instance of the kind from the map: the
\* requests so far are first requests
NoneRemoved(k) ==
    \A i \in StreamIds : ~(streams[i].created /\ streams[i].kind = k /\ streams[i].removed)
\* the instances of a kind that are alive: started and not stopped
Alive(k) ==
    {i \in StreamIds : /\ streams[i].created /\ streams[i].kind = k
                       /\ streams[i].starts > 0 /\ streams[i].stops = 0}

\* C5: for every key and any number of concurrent first requests for it,
\* exactly one stream is inserted in the registry map, Start is called
\* exactly once and only by the caller that inserted it, and every caller
\* reads from that same instance.
C5_OneStreamForFirstRequests ==
    /\ \A i \in StreamIds :
          /\ streams[i].starts <= 1
          /\ streams[i].starts = 1 =>
                streams[i].stored /\ streams[i].startedBy = streams[i].newBy
    /\ \A k \in Kinds : NoneRemoved(k) =>
          /\ Cardinality(Stored(k)) <= 1
          /\ \A c \in Callers :
                (caller[c].kind = k /\ caller[c].pc \in {"start", "lastget", "get"}) =>
                    /\ Stored(k) = {caller[c].srv}
                    /\ srvMap[k] = caller[c].srv

\* two callers raced through LoadOrStore (one instance was created and never
\* stored) and both read from the one stored, started instance
C5_Witness ==
    \E k \in Kinds, c1, c2 \in Callers :
        /\ c1 # c2
        /\ caller[c1].kind = k /\ caller[c1].pc = "get"
        /\ caller[c2].kind = k /\ caller[c2].pc = "get"
        /\ caller[c1].srv = caller[c2].srv
        /\ streams[caller[c1].srv].starts = 1
        /\ NoneRemoved(k)
        /\ \E i \in StreamIds :
              streams[i].created /\ streams[i].kind = k /\ ~streams[i].stored

\* the instance a caller obtained in this step from Load or LoadOrStore
Obtained(c) == caller'[c].srv # caller[c].srv /\ caller'[c].srv # NoSrv

\* C36: a stopped stream instance is never started again and never put
\* back into the registry: an instance the sweeper removed is never in the
\* map again and Start is never called on it a second time, and whatever
\* instance a get obtains from the map (by Load or by LoadOrStore) is one
\* that is in the map and was not removed, so a get that begins after the
\* removal reads from a fresh instance and never from the removed one.
C36_RemovedNeverReturned ==
    /\ [](\A i \in StreamIds : streams[i].removed =>
            /\ \A k \in Kinds : srvMap[k] # i
            /\ streams[i].starts <= 1)
    /\ [][\A c \in Callers : Obtained(c) =>
            /\ ~streams'[caller'[c].srv].removed
            /\ streams'[caller'[c].srv].stored
            /\ srvMap'[caller'[c].kind] = caller'[c].srv]_vars

\* the sweeper removed and stopped the key's stream, and a later get reads
\* from another instance, which it created, stored and started
C36_Witness ==
    \E c \in Callers, i, j \in StreamIds :
        /\ caller[c].pc = "get" /\ caller[c].srv = i
        /\ j < i
        /\ streams[j].kind = caller[c].kind
        /\ streams[j].removed /\ streams[j].stops > 0
        /\ ~streams[i].removed /\ streams[i].stored
        /\ streams[i].newBy = c /\ streams[i].starts = 1
        /\ srvMap[caller[c].kind] = i

\* C37: under every interleaving of gets and sweeper passes the sweeper never
\* stops a stream while the time since the most recent get for its key is at
\* most the idle expiry, and a get's touch of the last-access entry is never
\* lost: the sweeper deletes a last-access entry only when it is older than
\* the expiry, and when it stops a stream the key has no last-access entry
\* that is within the expiry.
C37_SweeperSparesRecentlyRead ==
    [][/\ \A k \in Kinds :
            (lastGet[k] # NoTime /\ lastGet'[k] = NoTime) =>
                now - lastGet[k] > Expiry(k)
       /\ \A i \in StreamIds :
            streams'[i].stops > streams[i].stops =>
                \/ lastGet[streams[i].kind] = NoTime
                \/ now - lastGet[streams[i].kind] > Expiry(streams[i].kind)]_vars

\* C6: at every reachable state, for every key at most one stream is alive
\* (created, started and not yet stopped), under every interleaving of get
\* requests with the sweeper's evict sequence.
C6_AtMostOneAlive ==
    \A k \in Kinds : Cardinality(Alive(k)) <= 1

-----------------------------------------------------------------------------
(* One kline stream under websocket events and reconnects: SpecKline        *)

InitKline ==
    /\ impl = "transport"
    /\ FwdZero
    /\ SvcZero
    /\ KlZero
    /\ ExtZero

KlineEvents == [openTime : OpenTimes, close : Closes]

NextKline ==
    \/ \E k \in KlineEvents, banned \in BOOLEAN, boot \in Bootstraps :
            wsHandler(k, banned, boot)
    \/ wsReconnect

SpecKline == InitKline /\ [][NextKline]_vars

\* C7: for a kline stream whose REST bootstrap returned at most the
\* capacity's number of candles, strictly increasing in open time, after
\* any sequence of websocket events every published snapshot is
\* non-decreasing in open time, has no two rows with the same open time and
\* is no longer than the capacity.
C7_WindowSortedUniqueCapped ==
    ~klinesArr.isNil =>
        /\ \A i, j \in DOMAIN klinesArr.rows :
              i < j => /\ klinesArr.rows[i].openTime <= klinesArr.rows[j].openTime
                       /\ klinesArr.rows[i].openTime # klinesArr.rows[j].openTime
        /\ Len(klinesArr.rows) <= KlineCap

\* a full snapshot that events have extended: rows were evicted from the
\* front, the last row came from an event and replaced an earlier one
C7_Witness ==
    /\ ~klinesArr.isNil
    /\ klinesArr.evicted > 0
    /\ Len(klinesArr.rows) = KlineCap
    /\ klinesArr.rows[KlineCap].close = 2
    /\ klinesArr.rows[1].close = 0

-----------------------------------------------------------------------------
(* The routing of one request, whatever its method, path and query:        *)
(* SpecRoute                                                               *)

\* the detector after a 418 with Retry-After: 2 recorded at the start
BannedAtStart(c) ==
    CheckResponse(BanDetectorZero, c,
                  [status |-> 418, retryAfter |-> <<"2">>, usedWeight |-> <<>>,
                   bodyMsgDigits |-> <<>>],
                  NoErr, StartTime).bd

InitRoute ==
    /\ impl \in Impls
    /\ now = StartTime
    /\ advances = 0
    /\ bd \in { [c \in Classes |-> BanDetectorZero],
                [c \in Classes |-> BannedAtStart(c)] }
    /\ limiter = [c \in Classes |-> LimiterZero]
    /\ req = [r \in Reqs |-> Idle]
    /\ hist = HistZero
    /\ SvcZero
    /\ KlZero
    /\ ExtZero

Methods == {"GET", "POST"}
RoutePaths ==
    KlinePaths \cup DepthPaths
        \cup {TickerPath, "/fapi/v1/ticker/24hr", "/api/v3/exchangeInfo",
              "/status", "/restart", "/api/v3/account"}
RouteLimits ==
    { Absent, <<>>, <<"0">>, <<"1">>, <<"4">>, <<"5">>, <<"2", "0">>,
      <<"2", "1">>, <<"1", "0", "0", "0">>, <<"1", "0", "0", "1">>,
      <<"a">>, <<"-", "1">>, <<"+", "5">> }
RouteQueries ==
    [symbol : {Absent, <<>>, <<"B">>}, interval : {Absent, <<"1", "m">>},
     limit : RouteLimits, startTime : {Absent, <<>>, <<"1">>},
     endTime : {Absent, <<"1">>}]
RouteResponses ==
    { [status |-> 200, retryAfter |-> <<>>, usedWeight |-> <<>>,
       bodyMsgDigits |-> <<>>],
      [status |-> 418, retryAfter |-> <<"2">>, usedWeight |-> <<>>,
       bodyMsgDigits |-> <<>>] }
RouteErrors == { <<"context canceled">> }

\* the request the specification follows
RouteReq == CHOOSE r \in Reqs : \A o \in Reqs : r <= o

\* the request arrives: any class's listener, any method, path and query
RouteArrive ==
    /\ req[RouteReq].pc = "idle"
    /\ \E c \in Classes, m \in Methods, p \in RoutePaths, q \in RouteQueries :
            Router(RouteReq, c, m, p, q)

NextRoute ==
    \/ RouteArrive
    \/ KlinesHandler(RouteReq)
    \/ DepthHandler(RouteReq)
    \/ TickerHandler(RouteReq)
    \/ \E isNil \in BOOLEAN : ServeSnapshot(RouteReq, isNil)
    \/ ExchangeInfoHandler(RouteReq)
    \/ StatusHandler(RouteReq)
    \/ RestartHandler(RouteReq)
    \/ RpIsBanned(RouteReq)
    \/ RpGetBanStatus(RouteReq)
    \/ ReturnEmpty(RouteReq)
    \/ RpRateWait(RouteReq)
    \/ RoundTripSend(RouteReq)
    \/ \E resp \in RouteResponses : ModifyResponse(RouteReq, resp)
    \/ RewriteResponse(RouteReq)
    \/ \E err \in RouteErrors : ErrorHandler(RouteReq, err)
    \/ \E resp \in RouteResponses : RoundTrip(RouteReq, resp, NoErr)
    \/ \E err \in RouteErrors : RoundTrip(RouteReq, NoResp, err)
    \/ Return(RouteReq)

SpecRoute == InitRoute /\ [][NextRoute]_vars

\* a query value that is there and not empty; one that is absent or empty
Given(v) == v # Absent /\ v # <<>>
Blank(v) == v = Absent \/ v = <<>>
\* a limit that parses as an integer in lo..hi
ParsesIn(v, lo, hi) == Atoi(v).ok /\ Atoi(v).val >= lo /\ Atoi(v).val <= hi

\* the requests whose routing is decided
Routed == {r \in Reqs : req[r].route # ""}

\* the condition the claim C8 gives for serving klines from the stream
ClaimedKlines(q) ==
    /\ q.limit # Absent /\ ParsesIn(q.limit, 1, 1000)
    /\ q.startTime = Absent /\ q.endTime = Absent
    /\ q.symbol # Absent /\ q.interval # Absent

\* C8 as stated: a request to a klines path is served from the klines
\* stream exactly when limit parses as an integer in 1..1000, startTime and
\* endTime are both absent and symbol and interval are both present; in
\* every other case it is forwarded upstream.
C8_KlinesServedIffClaimed ==
    \A r \in Routed : req[r].path \in KlinePaths =>
        /\ req[r].route = "stream" <=> ClaimedKlines(req[r].q)
        /\ ~ClaimedKlines(req[r].q) => req[r].route = "forward"

\* the condition the klines handler applies to the query
KlinesRule(q) ==
    /\ Blank(q.limit) \/ ParsesIn(q.limit, 1, 1000)
    /\ Blank(q.startTime) /\ Blank(q.endTime)
    /\ Given(q.symbol) /\ Given(q.interval)

\* C8, amended: a request to a klines path that finds the class banned is
\* answered by the handler's own empty answer; otherwise it is served from
\* the klines stream exactly when limit is absent or empty (it then counts
\* as 500) or parses as an integer in 1..1000, startTime and endTime are
\* absent or empty, symbol and interval are given and not empty, and the
\* stream's snapshot is not nil; in every other case it is handed to the
\* forwarder.
C8_KlinesRouting ==
    \A r \in Routed : req[r].path \in KlinePaths =>
        /\ req[r].route \in {"ban", "stream", "forward"}
        /\ req[r].route = "ban" =>
              req[r].sawBan /\ IsBannedResult(bd[req[r].class], now)
        /\ req[r].route = "stream" =>
              /\ ~IsBannedResult(bd[req[r].class], now)
              /\ KlinesRule(req[r].q) /\ ~req[r].nilData
        /\ req[r].route = "forward" =>
              ~req[r].sawBan /\ (~KlinesRule(req[r].q) \/ req[r].nilData)

\* a klines request without a limit, served from the stream
C8_Witness ==
    \E r \in Routed :
        /\ req[r].path \in KlinePaths /\ req[r].route = "stream"
        /\ req[r].q.limit = Absent /\ req[r].q.startTime = <<>>

\* the paths the claim C9 calls cacheable
CacheablePaths == KlinePaths \cup DepthPaths \cup {TickerPath} \cup ExchangeInfoPaths

\* C9 as stated: a request to a depth path is served from the depth stream
\* exactly when symbol is present and limit parses as an integer in 5..20,
\* a request to /api/v3/ticker/24hr is served from the ticker stream
\* exactly when symbol is present; in every other case, and for every path
\* outside the cacheable set, the request is forwarded upstream.
C9_DepthTickerServedIffClaimed ==
    \A r \in Routed :
        /\ req[r].path \in DepthPaths =>
              /\ req[r].route = "stream" <=>
                    (/\ req[r].q.symbol # Absent
                     /\ req[r].q.limit # Absent /\ ParsesIn(req[r].q.limit, 5, 20))
              /\ req[r].route # "stream" => req[r].route = "forward"
        /\ req[r].path = TickerPath =>
              /\ req[r].route = "stream" <=> req[r].q.symbol # Absent
              /\ req[r].route # "stream" => req[r].route = "forward"
        /\ req[r].path \notin CacheablePaths => req[r].route = "forward"

DepthRule(q) ==
    Given(q.symbol) /\ (Blank(q.limit) \/ ParsesIn(q.limit, 5, 20))

\* C9, amended: a request to a depth path is served from the depth stream
\* exactly when symbol is given and not empty, limit is absent or empty (it
\* then counts as 20) or parses as an integer in 5..20, and the snapshot is
\* not nil; a request to /api/v3/ticker/24hr is served from the ticker
\* stream exactly when symbol is given and not empty and the snapshot is
\* not nil; in every other case these requests are handed to the
\* forwarder.  /status and /restart are answered by the proxy itself, the
\* exchangeInfo paths from the stored body, and every path that is none of
\* these nor a klines path is handed to the forwarder.
C9_DepthTickerRouting ==
    \A r \in Routed :
        /\ req[r].path \in DepthPaths =>
              /\ req[r].route \in {"stream", "forward"}
              /\ req[r].route = "stream" <=>
                    (DepthRule(req[r].q) /\ ~req[r].nilData)
        /\ req[r].path = TickerPath =>
              /\ req[r].route \in {"stream", "forward"}
              /\ req[r].route = "stream" <=>
                    (Given(req[r].q.symbol) /\ ~req[r].nilData)
        /\ req[r].path \in ExchangeInfoPaths => req[r].route = "apicache"
        /\ req[r].path \in {"/status", "/restart"} => req[r].route = "local"
        /\ req[r].path \notin (CacheablePaths \cup {"/status", "/restart"}) =>
              req[r].route = "forward"

\* a depth request without a limit, served from the stream
C9_Witness ==
    \E r \in Routed :
        /\ req[r].path \in DepthPaths /\ req[r].route = "stream"
        /\ req[r].q.limit = Absent

\* C10: a request whose method is not GET is never answered from a stream
\* or from the exchange-info cache, even when its path and query match a
\* cacheable endpoint.
C10_NonGetNotServed ==
    \A r \in Routed :
        req[r].method # "GET" => req[r].route \notin {"stream", "apicache"}

-----------------------------------------------------------------------------
(* The nil snapshot                                                        *)

\* C11: whenever the snapshot the stream returned for a klines, depth or
\* ticker request is nil, the request is handed to the forwarder and no
\* stream-sourced response (Data-Source: websocket) is written for it.
C11_NilSnapshotForwarded ==
    \A r \in Reqs : req[r].nilData =>
        /\ req[r].path \in KlinePaths \cup DepthPaths \cup {TickerPath}
        /\ req[r].route = "forward"
        /\ req[r].pc \in {"rp", "rp_status", "empty", "ratewait", "send",
                          "inflight", "rewrite", "done"}
        /\ req[r].out.dataSource # "websocket"
        /\ req[r].out.why # "stream"

\* a depth request whose snapshot was nil has been answered from upstream
C11_Witness ==
    \E r \in Reqs :
        /\ req[r].nilData /\ req[r].path \in DepthPaths
        /\ req[r].pc = "done" /\ req[r].out.why = "upstream"

-----------------------------------------------------------------------------
(* The answers built from a snapshot: SpecView                             *)

\* the clock around the candles' close times
ViewTimes == 0..(MaxOpenTime + 3)

InitView ==
    /\ impl = "transport"
    /\ now \in ViewTimes
    /\ advances = 0
    /\ bd = [c \in Classes |-> BanDetectorZero]
    /\ limiter = [c \in Classes |-> LimiterZero]
    /\ req = [r \in Reqs |-> Idle]
    /\ hist = HistZero
    /\ SvcZero
    /\ KlZero
    /\ ExtZero

KlinesViewAny ==
    /\ view.kind = ""
    /\ \E data \in ViewSnapshots, limitInt \in ViewLimits, fake \in BOOLEAN :
            KlinesView(data, limitInt, fake)

DepthViewAny ==
    /\ view.kind = ""
    /\ \E nb \in 0..MaxLevels, na \in 0..MaxLevels, limitInt \in DepthLimits :
            DepthView(BidLevels(nb), AskLevels(na), limitInt)

NextView ==
    \/ KlinesViewAny
    \/ DepthViewAny
    \/ ViewReturn

SpecView == InitView /\ [][NextView]_vars

\* C12: when a klines request with limit L is served from a snapshot of n
\* rows and no synthetic candle applies, the response has exactly
\* min(L, n) rows and they are the last min(L, n) rows of the snapshot, in
\* the snapshot's order.
C12_LastRowsOfSnapshot ==
    (view.kind = "klines" /\ ~FakeApplies(view.data, now, view.fake)) =>
        LET n == Len(view.data)
            m == IF view.limitInt < n THEN view.limitInt ELSE n
        IN  /\ Len(view.rows) = m
            /\ \A i \in 1..m : view.rows[i] = view.data[n - m + i]

\* a snapshot longer than the limit, served without a synthetic candle
\* although fake candles are enabled
C12_Witness ==
    /\ view.kind = "klines" /\ view.fake
    /\ ~FakeApplies(view.data, now, view.fake)
    /\ Len(view.data) = KlineCap /\ view.limitInt = KlineCap - 1
    /\ Len(view.rows) = KlineCap - 1
    /\ view.rows[1] = view.data[2]

\* the candle the claim C13 describes, made from the snapshot's last one
ClaimedFake(last) ==
    [openTime |-> last.closeTime + 1, open |-> last.close,
     high |-> last.close, low |-> last.close, close |-> last.close,
     closeTime |-> last.closeTime + 1 + (last.closeTime - last.openTime)]

\* C13: with fake candles enabled and the current time after the last
\* candle's close time, the served rows end with one synthetic row (open
\* time last.close_time+1, OHLC all last.close, close time
\* last.close_time+1+(last.close_time-last.open_time)); it is appended
\* after all real rows when the response has fewer than limit rows and
\* replaces the trailing real row only when the response already has limit
\* rows; otherwise no synthetic row is produced.
C13_SyntheticCandle ==
    view.kind = "klines" =>
        LET n    == Len(view.data)
            m    == IF view.limitInt < n THEN view.limitInt ELSE n
            real == SubSeq(view.data, n - m + 1, n)
        IN  IF view.fake /\ n > 0 /\ now > view.data[n].closeTime
            THEN IF m < view.limitInt
                 THEN view.rows = Append(real, ClaimedFake(view.data[n]))
                 ELSE view.rows =
                         Append(SubSeq(real, 1, m - 1), ClaimedFake(view.data[n]))
            ELSE view.rows = real

\* C14: when a depth request with limit L is served from a snapshot, the
\* response's bids are the first min(L, |bids|) bid levels of the snapshot
\* and its asks the first min(L, |asks|) ask levels, each side truncated on
\* its own and kept in the snapshot's order.
C14_SidesTruncatedIndependently ==
    view.kind = "depth" =>
        /\ view.bids = SubSeq(view.dataBids, 1,
                              Min(view.limitInt, Len(view.dataBids)))
        /\ view.asks = SubSeq(view.dataAsks, 1,
                              Min(view.limitInt, Len(view.dataAsks)))

-----------------------------------------------------------------------------
(* The sweeper's decisions                                                 *)

\* C15: on every sweeper tick each stream whose last access is older than
\* its idle expiry (2 x the interval for klines, 2 minutes for depth and
\* ticker) is stopped and removed from the stream map and the last-access
\* map, and every stream whose last access is within its idle expiry is
\* left in the registry and running: the sweeper never sets out to remove
\* or stop a stream accessed within the expiry, and a stream it found
\* expired is off both maps once it is stopped.
C15_SweepRemovesOnlyIdle ==
    LET k == sweeper.kind
    IN  /\ sweeper.pc = "dellast" =>
              /\ lastGet[k] # NoTime
              /\ now - lastGet[k] > Expiry(k)
        /\ sweeper.pc \in {"delmap", "stop"} =>
              (lastGet[k] = NoTime \/ now - lastGet[k] > Expiry(k))
        /\ \A i \in StreamIds :
              (streams[i].removed /\ sweeper.pc = "idle") => streams[i].stops > 0

-----------------------------------------------------------------------------
(* One kline stream, its latch and its readers: SpecLatch, SpecLatchFair   *)

InitLatch ==
    /\ impl = "transport"
    /\ FwdZero
    /\ SvcZero
    /\ KlZero
    /\ ExtZero

\* the REST answers and the events of the latch's behaviours
LatchBoots == { b \in Bootstraps : \A i \in DOMAIN b : b[i].openTime <= 1 }
LatchEvents == { k \in KlineEvents : k.openTime <= 2 /\ k.close = 1 }

NextLatch ==
    \/ KsStart
    \/ KsStop
    \/ \E k \in LatchEvents : WsEvent(k)
    \/ \E banned \in BOOLEAN, boot \in LatchBoots : WsInit(banned, boot)
    \/ WsMerge
    \/ KsReconnect
    \/ \E r \in Readers : RdEnter(r)
    \/ \E r \in Readers : RdGet(r)
    \/ \E r \in Readers : RdReturn(r)

SpecLatch == InitLatch /\ [][NextLatch]_vars

\* the scheduler runs every goroutine that can take a step: the websocket's
\* goroutine finishes the handler it is in, a reader whose latch is open
\* reads and returns.  Events, REST answers, Stop and new readers come from
\* outside.
SpecLatchFair ==
    /\ SpecLatch
    /\ WF_vars(WsMerge)
    /\ \A r \in Readers : WF_vars(RdGet(r)) /\ WF_vars(RdReturn(r))

\* C16: every get() on a stream eventually returns once the latch has
\* fired or the stream has been stopped: after stop() (or the cancellation
\* of the root context) every read, those blocked on the latch included,
\* returns the last snapshot or nil instead of blocking forever.
C16_GetReturnsAfterStop ==
    \A r \in Readers :
        (rd[r].pc = "wait" /\ (ks.initDone \/ ks.cancelled)) ~> (rd[r].pc # "wait")

\* C17: get() on a kline stream never returns before the latch has fired,
\* the latch fires only when the first snapshot has been published or the
\* stream has decided to serve empty because of a ban, and so without a
\* ban every get() that returns has a snapshot that is not nil, under every
\* interleaving of the readers with the stream's writer.
C17_GetSeesFirstSnapshot ==
    /\ \A r \in Readers : rd[r].pc = "done" => ks.initDone
    /\ ks.initDone => (~klinesArr.isNil \/ ks.banEmpty)
    /\ \A r \in Readers :
          (rd[r].pc = "done" /\ ~ks.banEmpty) => ~rd[r].got.isNil

-----------------------------------------------------------------------------
(* One forwarded request and the upstream's answer: SpecForward            *)

\* the detector after four connection errors in a row at the start
AfterErrors(c, n) ==
    LET step(b) == CheckResponse(b, c, NoResp,
                                 <<"dial tcp", "connection refused">>,
                                 StartTime).bd
    IN  IF n = 0 THEN BanDetectorZero
        ELSE IF n = 1 THEN step(BanDetectorZero)
        ELSE IF n = 2 THEN step(step(BanDetectorZero))
        ELSE IF n = 3 THEN step(step(step(BanDetectorZero)))
        ELSE step(step(step(step(BanDetectorZero))))

InitForward ==
    /\ impl \in Impls
    /\ now = StartTime
    /\ advances = 0
    /\ bd \in { [c \in Classes |-> BanDetectorZero],
                [c \in Classes |-> BannedAtStart(c)],
                [c \in Classes |-> AfterErrors(c, 4)] }
    /\ limiter = [c \in Classes |-> LimiterZero]
    /\ req = [r \in Reqs |-> Idle]
    /\ hist = HistZero
    /\ SvcZero
    /\ KlZero
    /\ ExtZero

ForwardPaths == {"/api/v3/klines", "/api/v3/depth", TickerPath, "/api/v3/account"}
ForwardResponses ==
    [status : {200, 400, 500, 418, 429, 403}, retryAfter : {<<>>, <<"2">>},
     usedWeight : {<<>>}, bodyMsgDigits : {<<>>}]
ForwardErrors == { <<"context canceled">>, <<"dial tcp", "connection refused">> }

\* the request arrives with a query its handler does not serve, or at a
\* path that has no handler
ForwardArrive ==
    /\ req[RouteReq].pc = "idle"
    /\ \E c \in Classes, m \in Methods, p \in ForwardPaths :
            Set(RouteReq, [Idle EXCEPT !.pc = "rp", !.class = c, !.method = m,
                                       !.path = p, !.route = "forward"])
    /\ UNCHANGED <<now, advances, impl, callVars, bd, limiter, hist, svcVars, klVars,
                   extVars>>

NextForward ==
    \/ ForwardArrive
    \/ RpIsBanned(RouteReq)
    \/ RpGetBanStatus(RouteReq)
    \/ ReturnEmpty(RouteReq)
    \/ RpRateWait(RouteReq)
    \/ RoundTripSend(RouteReq)
    \/ \E resp \in ForwardResponses : ModifyResponse(RouteReq, resp)
    \/ RewriteResponse(RouteReq)
    \/ \E err \in ForwardErrors : ErrorHandler(RouteReq, err)
    \/ \E resp \in ForwardResponses : RoundTrip(RouteReq, resp, NoErr)
    \/ \E err \in ForwardErrors : RoundTrip(RouteReq, NoResp, err)
    \/ Return(RouteReq)
    \/ \E d \in Deltas : Tick(d)

SpecForward == InitForward /\ [][NextForward]_vars

\* is out the synthetic empty response for the path: the empty shape of
\* the path as the whole body, marked as ban protection
SyntheticEmpty(out, path) ==
    /\ out.body = <<EmptyBody(path)>>
    /\ out.dataSource = "ban-protection"
    /\ out.contentType = "application/json"
    /\ out.upstream = NoResp \/ out.why = "ban"

\* C18: for every upstream response to a forwarded request, if
\* check_response flags a ban the upstream body is dropped and the client
\* receives the synthetic empty response for the request's path; otherwise
\* the client receives the upstream's status, headers and body unchanged
\* (non-ban 4xx and 5xx included); check_response is called exactly once
\* per upstream response.
C18_ResponseRewrittenOrPassed ==
    \A r \in Reqs :
        (req[r].pc = "done" /\ req[r].upResp # NoResp) =>
            /\ req[r].checks = 1
            /\ IF req[r].ban
               THEN SyntheticEmpty(req[r].out, req[r].path)
               ELSE req[r].out = PassThrough(req[r].upResp)

\* C19: for every transport error on a forwarded request the error is fed
\* to the detector exactly once and the client receives exactly one
\* response: the synthetic empty response if the detector then reports a
\* ban, else status 502 with the bad_gateway JSON body; no upstream bytes
\* and no second answer are written.
C19_ErrorAnsweredOnce ==
    \A r \in Reqs :
        (req[r].pc = "done" /\ req[r].upErr # NoErr) =>
            /\ req[r].checks = 1
            /\ req[r].out.upstream = NoResp
            /\ IF req[r].ban
               THEN SyntheticEmpty(req[r].out, req[r].path)
               ELSE /\ req[r].out.status = 502
                    /\ req[r].out.body = BadGateway.body

-----------------------------------------------------------------------------
(* The exchange-info service and its readers: SpecExch                     *)

InitExch ==
    /\ impl = "transport"
    /\ FwdZero
    /\ SvcZero
    /\ KlZero
    /\ view = NoView
    /\ ks = KsZero
    /\ rd = [r \in Readers |-> RdIdle]
    /\ exch \in { ExchZero(c) : c \in Classes }
    /\ exRd = [r \in Readers |-> ExRdIdle]
    /\ CallZero

NextExch ==
    \/ \E resp \in ExResponses : refreshExchangeInfo(resp, NoErr)
    \/ \E err \in ExErrors : refreshExchangeInfo(NoResp, err)
    \/ ExTimer
    \/ \E r \in Readers : ExEnter(r)
    \/ \E r \in Readers : ExGet(r)
    \/ \E r \in Readers : ExReturn(r)
    \/ Tick(Minute)

SpecExch == InitExch /\ [][NextExch]_vars

\* C20: exchange-info get() blocks until the first successful fetch has
\* been published and from then on returns the most recently published
\* upstream body; the latch does not fire on a failed fetch, on a
\* non-successful upstream response or on a poll skipped because the class
\* is banned, and a skipped or failed poll leaves the stored body
\* unchanged.
C20_LatchOnFirstSuccess ==
    /\ \A r \in Readers : exRd[r].pc = "done" =>
          (exch.initDone /\ exRd[r].got # NoBody)
    /\ exch.initDone <=> exch.exchangeInfo # NoBody
    /\ exch.last.fired =>
          (exch.last.how = "stored" /\ exch.last.status = 200)
    /\ exch.last.how \in {"skipped", "failed", "ban"} =>
          exch.exchangeInfo = exch.last.before
    /\ exch.last.how = "stored" => exch.exchangeInfo.poll = exch.polls

-----------------------------------------------------------------------------
(* calculateWeight and RateWait, one call at a time: SpecWeight            *)

\* the limit values around every threshold of the three tables, a limit
\* that is no number, and no limit
WeightLimits ==
    {Absent, <<"x">>, <<"5", "0">>, <<"5", "1">>, <<"1", "0", "0">>,
     <<"1", "0", "1">>, <<"5", "0", "0">>, <<"5", "0", "1">>,
     <<"1", "0", "0", "0">>, <<"1", "0", "0", "1">>, <<"5", "0", "0", "0">>}

TickerPaths == {"/api/v3/ticker/24hr", "/fapi/v1/ticker/24hr"}

\* the market class a path belongs to
PathClass(path) ==
    IF path \in {"/api/v3/klines", "/api/v3/depth", "/api/v3/ticker/24hr",
                 "/api/v3/exchangeInfo", "/api/v3/order", "/api/v3/account",
                 "/api/v3/myTrades", "/api/v3/allOrders", "/api/v3/openOrders",
                 "/api/v3/time"}
    THEN SPOT ELSE FUTURES

\* paths of no stream and of no exchange info: the account and order
\* endpoints calculateWeight names, and two it does not name
OtherPaths ==
    {"/api/v3/account", "/api/v3/myTrades", "/api/v3/allOrders",
     "/api/v3/openOrders", "/api/v3/time", "/fapi/v1/userTrades",
     "/fapi/v2/account", "/fapi/v1/allOrders", "/fapi/v1/openOrders",
     "/fapi/v1/time"}

\* the calls of RateWait that are tried: (method, path, query)
WeightCalls ==
    { <<"GET", p, [NoQuery EXCEPT !.symbol = <<"B">>, !.limit = l]>> :
          p \in KlinePaths \cup DepthPaths, l \in WeightLimits }
    \cup { <<"GET", p, [NoQuery EXCEPT !.symbol = s]>> :
          p \in TickerPaths, s \in {Absent, <<>>, <<"B">>} }
    \cup { <<"GET", p, NoQuery>> : p \in ExchangeInfoPaths }
    \cup { <<m, "/api/v3/order", NoQuery>> : m \in {"GET", "POST"} }
    \cup { <<"GET", p, [NoQuery EXCEPT !.symbol = s]>> :
          p \in OtherPaths, s \in {Absent, <<"B">>} }

\* a bucket that earlier calls have emptied just now
LimiterDrained == [tokens |-> 0, last |-> StartTime]

InitWeight ==
    /\ impl = "transport"
    /\ now = StartTime
    /\ advances = 0
    /\ bd = [c \in Classes |-> BanDetectorZero]
    /\ limiter \in [Classes -> {LimiterZero, LimiterDrained}]
    /\ req = [r \in Reqs |-> Idle]
    /\ hist = HistZero
    /\ SvcZero
    /\ KlZero
    /\ ExtZero

NextWeight ==
    \/ \E c \in WeightCalls : RateWaitCall(PathClass(c[2]), c[1], c[2], c[3])
    \/ \E d \in Deltas : Tick(d)

SpecWeight == InitWeight /\ [][NextWeight]_vars

\* the limit of the last call as a number
CallLimit == Atoi(Get(rateCall.q, "limit"))

\* the weight table as the specification prints it, for a limit that is a
\* number
TableWeight ==
    IF rateCall.path \in KlinePaths
    THEN (IF CallLimit.val <= 100 THEN 1
          ELSE IF CallLimit.val <= 500 THEN 2
          ELSE IF CallLimit.val <= 1000 THEN 5 ELSE 10)
    ELSE IF rateCall.path = "/api/v3/depth"
    THEN (IF CallLimit.val <= 100 THEN 1
          ELSE IF CallLimit.val <= 500 THEN 5
          ELSE IF CallLimit.val = 1000 THEN 10
          ELSE IF CallLimit.val = 5000 THEN 50 ELSE 1)
    ELSE IF rateCall.path = "/fapi/v1/depth"
    THEN (IF CallLimit.val <= 50 THEN 2
          ELSE IF CallLimit.val = 100 THEN 5
          ELSE IF CallLimit.val = 500 THEN 10
          ELSE IF CallLimit.val = 1000 THEN 20 ELSE 2)
    ELSE IF rateCall.path \in TickerPaths
    THEN (IF Get(rateCall.q, "symbol") = <<>> THEN 40 ELSE 1)
    ELSE 10

\* the last call is a row of the table
TableRow ==
    /\ rateCall.n > 0
    /\ \/ rateCall.path \in KlinePaths \cup DepthPaths /\ CallLimit.ok
       \/ rateCall.path \in TickerPaths \cup ExchangeInfoPaths

\* C21: for every row of the weight table (klines, spot depth and futures
\* depth by their numeric limit, ticker/24hr without and with a symbol,
\* exchangeInfo), on the spot and on the futures path alike, calculateWeight
\* returns the weight the table gives.
C21_WeightTable == TableRow => rateCall.weight = TableWeight

\* a futures depth request with limit=100 has been weighed: the row on
\* which the spot and the futures depth tables differ
C21_Witness ==
    /\ TableRow
    /\ rateCall.path = "/fapi/v1/depth"
    /\ CallLimit.val = 100
    /\ rateCall.weight = 5

\* the other bucket of the last call
OtherClass(class) == IF class = SPOT THEN FUTURES ELSE SPOT

\* C22: after a RateWait that returns with its context not cancelled, the
\* class's bucket holds exactly weight tokens less than it held (refilled up
\* to the call) when the call began, and the other class's bucket is as it
\* was.
C22_DebitedExactlyWeight ==
    rateCall.n > 0 =>
        /\ limiter[rateCall.class].tokens =
               advance(rateCall.before[rateCall.class], rateCall.class,
                       rateCall.at) - rateCall.weight * Centi
        /\ limiter[OtherClass(rateCall.class)] =
               rateCall.before[OtherClass(rateCall.class)]

\* what RateWait takes: the weight, and one token more whenever Allow()
\* found a token to take
C22_DebitedWeightPlusProbe ==
    rateCall.n > 0 =>
        LET had == advance(rateCall.before[rateCall.class], rateCall.class,
                           rateCall.at)
        IN  /\ limiter[rateCall.class].tokens =
                   had - rateCall.weight * Centi - (IF had >= Centi THEN Centi ELSE 0)
            /\ limiter[OtherClass(rateCall.class)] =
                   rateCall.before[OtherClass(rateCall.class)]

-----------------------------------------------------------------------------
(* The merge of one event into a window that holds rows (SpecKline)        *)

\* the merge and the eviction of wsHandler on the rows of a list
ApplyEvent(rows, k) == EvictFront(MergeKline(rows, k))

\* rows without its first n elements
DropFront(rows, n) == SubSeq(rows, n + 1, Len(rows))

\* what the claim says of the window w and the event k: the window after
MergedAsClaimed(w, k, after) ==
    LET back == w[Len(w)]
    IN  IF back.openTime < k.openTime
        THEN /\ Len(after) = Min(Len(w) + 1, KlineCap)
             /\ after = DropFront(Append(w, k), Len(w) + 1 - Len(after))
        ELSE IF back.openTime = k.openTime
        THEN /\ Len(after) = Len(w)
             /\ after[Len(w)] = k
             /\ \A i \in 1..(Len(w) - 1) : after[i] = w[i]
        ELSE after = w

\* C23: when wsHandler handles an event k on a window that holds rows, then
\* a k newer than the last row is pushed at the back and rows leave at the
\* front until the capacity is kept, a k as old as the last row replaces it
\* and nothing else changes, an older k changes nothing; and the snapshot
\* published after the event equals the window.
C23_MergeByOpenTime ==
    [][\A k \in KlineEvents :
          (/\ ~klinesList.isNil
           /\ klinesList.rows # <<>>
           /\ wsHandler(k, FALSE, <<>>))
          => /\ MergedAsClaimed(klinesList.rows, k, klinesList'.rows)
             /\ ~klinesArr'.isNil
             /\ klinesArr'.rows = klinesList'.rows]_vars

\* a full window after three events: one replaced the last row, one was
\* pushed and evicted the first row
C23_Witness ==
    /\ ~klinesList.isNil
    /\ Len(klinesList.rows) = KlineCap
    /\ klinesList.evicted > 0
    /\ klinesList.rows[KlineCap - 1].close = 2
    /\ klinesList.rows[KlineCap].close = 1
    /\ klinesArr = klinesList

\* the window's last row
Back(rows) == rows[Len(rows)]

\* C24 as stated: on every window that holds rows, for two events e1, e2
\* with e2 newer than e1 the window after e1 then e2 equals the window after
\* e2 then e1, and for two events of the same open time the window ends
\* with the one applied last.
C24_MergeCommutes ==
    (~klinesList.isNil /\ klinesList.rows # <<>>) =>
        \A e1, e2 \in KlineEvents :
            LET w == klinesList.rows
            IN  /\ e2.openTime > e1.openTime =>
                       ApplyEvent(ApplyEvent(w, e1), e2) =
                       ApplyEvent(ApplyEvent(w, e2), e1)
                /\ e2.openTime = e1.openTime =>
                       Back(ApplyEvent(ApplyEvent(w, e1), e2)) = e2

\* C24, amended: an event older than the window's last row is dropped, so
\* two events e1 older than e2 commute exactly when e1 is older than the
\* last row or is the last row itself; in every other case e2 then e1 loses
\* e1, which e1 then e2 keeps.  Two events of one open time that is not
\* older than the last row leave the one applied last at the back.
C24_MergeCommutesOnlyOnDropped ==
    (~klinesList.isNil /\ klinesList.rows # <<>>) =>
        \A e1, e2 \in KlineEvents :
            LET w  == klinesList.rows
                ab == ApplyEvent(ApplyEvent(w, e1), e2)
                ba == ApplyEvent(ApplyEvent(w, e2), e1)
            IN  /\ e2.openTime > e1.openTime =>
                    /\ ba = ApplyEvent(w, e2)
                    /\ (ab = ba) <=> (e1.openTime < Back(w).openTime \/ e1 = Back(w))
                    /\ e1.openTime >= Back(w).openTime =>
                           \E i \in DOMAIN ab : ab[i] = e1
                /\ (e2.openTime = e1.openTime /\ e1.openTime >= Back(w).openTime) =>
                       Back(ab) = e2

\* a window whose last row has open times on both sides: events older than
\* it and pairs of events newer than it exist
C24_Witness ==
    /\ ~klinesList.isNil
    /\ Len(klinesList.rows) = KlineCap
    /\ Back(klinesList.rows).openTime = 3
    /\ Back(klinesList.rows).close = 2

-----------------------------------------------------------------------------
(* One kline stream of class SPOT and the BanDetector: SpecSupervise       *)

InitSupervise ==
    /\ impl = "transport"
    /\ now = StartTime
    /\ advances = 0
    /\ bd \in { [c \in Classes |-> BanDetectorZero],
                [c \in Classes |-> IF c = SPOT THEN BannedAtStart(c)
                                   ELSE BanDetectorZero] }
    /\ limiter = [c \in Classes |-> LimiterZero]
    /\ req = [r \in Reqs |-> Idle]
    /\ hist = HistZero
    /\ SvcZero
    /\ KlZero
    /\ ExtZero

\* initKlineData as the BanDetector decides it: banned when IsBanned says
\* so, and possibly when CheckResponse takes the REST answer for a ban
NextSupervise ==
    \/ KsStart
    \/ KsStop
    \/ \E k \in LatchEvents : WsEvent(k)
    \/ \E banned \in BOOLEAN, boot \in LatchBoots :
          /\ IsBannedResult(bd[SPOT], now) => banned
          /\ WsInit(banned, boot)
    \/ WsMerge
    \/ KsReconnect
    \/ \E d \in Deltas : Tick(d)

SpecSupervise == InitSupervise /\ [][NextSupervise]_vars

\* C25: an iteration of the stream's supervisor that starts while the class
\* is banned installs an empty snapshot, fires the latch and opens no
\* websocket while the ban lasts.  (Every iteration calls s.connect(), so an
\* iteration begun under a ban is one that dialed under it.)
C25_NoDialWhileBanned ==
    (ks.started /\ IsBannedResult(bd[SPOT], now)) =>
        /\ ~ks.bannedDial
        /\ ks.initDone
        /\ ~klinesArr.isNil /\ klinesArr.rows = <<>>

\* C26: once initKlineData has stopped on a ban, the list is empty and the
\* latch has fired, and the event that made it run and every later event
\* are handled without a runtime failure: the websocket's goroutine goes on.
C26_EventsHandledAfterBan ==
    ks.banEmpty =>
        /\ ks.initDone
        /\ ks.ws = "merge" => (~klinesList.isNil /\ klinesList.rows = <<>>)
        /\ ~wsPanic

-----------------------------------------------------------------------------
(* The BanDetector, one call at a time: SpecBan                            *)

\* a response with a status and the three things CheckResponse reads
Response(status, retryAfter, usedWeight, bodyMsgDigits) ==
    [status |-> status, retryAfter |-> retryAfter, usedWeight |-> usedWeight,
     bodyMsgDigits |-> bodyMsgDigits]

\* the unix time of one minute after the model's epoch, in s and in ms
BanStamps ==
    {<<>>,
     <<"1", "7", "0", "0", "0", "0", "0", "0", "4", "0">>,
     <<"1", "7", "0", "0", "0", "0", "0", "0", "4", "0", "0", "0", "0">>}

\* X-MBX-USED-WEIGHT-1M: 90 % of the class's limit, one more, one less
WeightsAround(class) ==
    IF class = SPOT
    THEN {<<"1", "0", "7", "9">>, <<"1", "0", "8", "0">>, <<"1", "0", "8", "1">>}
    ELSE {<<"2", "1", "5", "9">>, <<"2", "1", "6", "0">>, <<"2", "1", "6", "1">>}

\* the upstream's answers: bans with and without Retry-After and a body
\* timestamp, successes with every kind of weight header, a ban that comes
\* with a weight above the threshold
BanResponses(class) ==
    { Response(418, ra, <<"7">>, ts) :
          ra \in {<<>>, <<"1">>, <<"x">>}, ts \in BanStamps }
    \cup { Response(429, ra, <<"7">>, <<>>) : ra \in {<<>>, <<"0">>, <<"1">>} }
    \cup { Response(403, <<>>, <<"7">>, <<>>) }
    \cup { Response(200, <<>>, w, <<>>) :
          w \in {<<>>, <<"7">>, <<"x">>} \cup WeightsAround(class) }
    \cup { Response(s, <<"1">>, w, <<>>) :
          s \in {418, 429}, w \in {<<>>} \cup WeightsAround(class) }

InitBan ==
    /\ impl = "transport"
    /\ now \in {StartTime, Minute - Second \div 2}
    /\ advances = 0
    /\ bd = [c \in Classes |-> BanDetectorZero]
    /\ limiter = [c \in Classes |-> LimiterZero]
    /\ req = [r \in Reqs |-> Idle]
    /\ hist = HistZero
    /\ SvcZero
    /\ KlZero
    /\ ExtZero

NextBan ==
    \/ \E c \in Classes : IsBannedCall(c)
    \/ \E c \in Classes : \E resp \in BanResponses(c) :
          CheckResponseCall(c, resp, NoErr)
    \/ \E c \in Classes : CheckResponseCall(c, NoResp, <<"timeout">>)
    \/ \E d \in Deltas : Tick(d)

SpecBan == InitBan /\ [][NextBan]_vars

\* the class's state as the last recorded call left it
BanAfter == bd[banCall.class]

\* C27: IsBanned on a banned class at a time now >= the recovery deadline
\* clears the flag and returns false, so that GetBanStatus then reports
\* banned = false; at a time now < the deadline it returns true and leaves
\* the state as it was.
C27_IsBannedClearsAtDeadline ==
    (banCall.op = "IsBanned" /\ banCall.before.banned) =>
        IF banCall.at >= banCall.before.recoveryTime
        THEN /\ ~banCall.result
             /\ ~GetBanStatus(BanAfter).banned
        ELSE /\ banCall.result
             /\ BanAfter = banCall.before

\* what IsBanned does: the flag is cleared strictly after the deadline, and
\* at the deadline itself the call returns false and leaves the flag set
C27_IsBannedClearsAfterDeadline ==
    (banCall.op = "IsBanned" /\ banCall.before.banned) =>
        /\ banCall.result = (banCall.at < banCall.before.recoveryTime)
        /\ GetBanStatus(BanAfter).banned =
               (banCall.at <= banCall.before.recoveryTime)
        /\ BanAfter.recoveryTime = banCall.before.recoveryTime

\* Retry-After of the last call's response as seconds, when it parses
CallRetryAfter == Atoi(banCall.resp.retryAfter)

\* C28: in every state, CheckResponse on a 418 returns true, sets the
\* deadline to now + Retry-After when the header parses, else to the unix
\* timestamp of the body, else to now + 10 min, and resets the backoff
\* exponent; on a 429 it sets now + Retry-After or now + 1 min and resets
\* the backoff exponent; on a 403 it sets now + 5 min.
C28_DeadlineByStatus ==
    (banCall.op = "CheckResponse" /\ banCall.resp # NoResp) =>
        LET resp == banCall.resp
            ts   == parseBanExpiryNonDestructive(resp)
        IN  /\ resp.status = 418 =>
                /\ banCall.result
                /\ BanAfter.banned
                /\ BanAfter.recoveryTime =
                       (IF CallRetryAfter.ok
                        THEN banCall.at + CallRetryAfter.val * Second
                        ELSE IF ts # ZeroTime THEN ts
                        ELSE banCall.at + 10 * Minute)
                /\ BanAfter.backoffCount = 0
            /\ resp.status = 429 =>
                /\ banCall.result
                /\ BanAfter.banned
                /\ BanAfter.recoveryTime =
                       (IF CallRetryAfter.ok
                        THEN banCall.at + CallRetryAfter.val * Second
                        ELSE banCall.at + Minute)
                /\ BanAfter.backoffCount = 0
            /\ resp.status = 403 =>
                /\ banCall.result
                /\ BanAfter.banned
                /\ BanAfter.recoveryTime = banCall.at + 5 * Minute

\* the response's weight puts the class above the threshold: then the
\* weight's ban until the next minute goes first
CallOverWeight == 10 * BanAfter.weightUsed > 9 * BanAfter.weightLimit

\* C28 where the weight does not go first
C28_DeadlineByStatusUnderWeight ==
    ~CallOverWeight => C28_DeadlineByStatus

\* C29: after CheckResponse has processed a response, the class is banned
\* until the next minute boundary whenever weight_used / weight_limit >= 0.9
\* (exactly 0.9 included), and the weight sets no ban when the ratio is
\* below 0.9: then a response that is no 418, 429 or 403 leaves the ban
\* state as it was.
C29_WeightBanFromNinetyPercent ==
    (banCall.op = "CheckResponse" /\ banCall.resp # NoResp) =>
        IF 10 * BanAfter.weightUsed >= 9 * BanAfter.weightLimit
        THEN /\ banCall.result
             /\ BanAfter.banned
             /\ BanAfter.recoveryTime = NextMinute(banCall.at)
        ELSE banCall.resp.status \notin {418, 429, 403} =>
                /\ ~banCall.result
                /\ BanAfter.banned = banCall.before.banned
                /\ BanAfter.recoveryTime = banCall.before.recoveryTime

\* C29 with the threshold of the code: above 0.9
C29_WeightBanAboveNinetyPercent ==
    (banCall.op = "CheckResponse" /\ banCall.resp # NoResp) =>
        IF 10 * BanAfter.weightUsed > 9 * BanAfter.weightLimit
        THEN /\ banCall.result
             /\ BanAfter.banned
             /\ BanAfter.recoveryTime = NextMinute(banCall.at)
        ELSE banCall.resp.status \notin {418, 429, 403} =>
                /\ ~banCall.result
                /\ BanAfter.banned = banCall.before.banned
                /\ BanAfter.recoveryTime = banCall.before.recoveryTime

\* X-MBX-USED-WEIGHT-1M of the last call's response as a number
CallUsedWeight == Atoi(banCall.resp.usedWeight)

\* the last call was the first one of a new minute window
CallRolledOver == banCall.at > banCall.before.weightReset

\* C30: in every state, the initial one and the first response after a
\* rollover of the minute window included, after CheckResponse has consumed
\* a response with X-MBX-USED-WEIGHT-1M: v the class's weight_used is v; a
\* response without the header adds exactly 1 to weight_used; weight_used is
\* reset only at a rollover.
C30_WeightUsedFollowsHeader ==
    (banCall.op = "CheckResponse" /\ banCall.resp # NoResp) =>
        /\ (banCall.resp.usedWeight # <<>> /\ CallUsedWeight.ok) =>
               BanAfter.weightUsed = CallUsedWeight.val
        /\ banCall.resp.usedWeight = <<>> =>
               BanAfter.weightUsed = banCall.before.weightUsed + 1
        /\ ~CallRolledOver => BanAfter.weightReset = banCall.before.weightReset

\* what updateWeightInfo does: the header's value or the increment is kept
\* only when the window has not rolled over; the first response of a
\* window leaves weight_used 0 whatever it carried
C30_WeightUsedZeroAtRollover ==
    (banCall.op = "CheckResponse" /\ banCall.resp # NoResp) =>
        IF CallRolledOver
        THEN /\ BanAfter.weightUsed = 0
             /\ BanAfter.weightReset = NextMinute(banCall.at)
        ELSE /\ (banCall.resp.usedWeight # <<>> /\ CallUsedWeight.ok) =>
                    BanAfter.weightUsed = CallUsedWeight.val
             /\ banCall.resp.usedWeight = <<>> =>
                    BanAfter.weightUsed = banCall.before.weightUsed + 1
             /\ BanAfter.weightReset = banCall.before.weightReset

-----------------------------------------------------------------------------
(* Transport errors and the exponential backoff: SpecBackoff               *)

\* the largest backoff count a behaviour starts from
MaxBackoffCount == 56

\* the class's state after n bans for transport errors, none of them
\* followed by a 200, a 418 or a 429, the last ban over and its flag
\* cleared, and j matching errors since, the last of them a second ago
BackoffState(n, j) ==
    [BanDetectorZero EXCEPT
        !.backoffCount = n,
        !.errorCount = j,
        !.lastError = IF n > 0 \/ j > 0 THEN StartTime - Second ELSE ZeroTime,
        !.recoveryTime = IF n > 0 THEN StartTime - 2 * Second ELSE ZeroTime]

\* err.Error() of the transport errors tried: two that match a substring
\* CheckResponse looks for, one that matches none
BackoffErrors ==
    {<<"dial tcp", "connection refused">>, <<"timeout">>, <<"unexpected EOF">>}

InitBackoff ==
    /\ impl = "transport"
    /\ now = StartTime
    /\ advances = 0
    /\ bd \in { [c \in Classes |-> IF c = k THEN BackoffState(n, j)
                                  ELSE BanDetectorZero] :
                  k \in Classes, n \in 0..MaxBackoffCount, j \in {0, 4} }
    /\ limiter = [c \in Classes |-> LimiterZero]
    /\ req = [r \in Reqs |-> Idle]
    /\ hist = HistZero
    /\ SvcZero
    /\ KlZero
    /\ ExtZero

NextBackoff ==
    \/ \E c \in Classes, err \in BackoffErrors : CheckResponseCall(c, NoResp, err)
    \/ \E d \in Deltas : Tick(d)

SpecBackoff == InitBackoff /\ [][NextBackoff]_vars

\* the last recorded call was CheckResponse with a transport error
ErrorCall == banCall.op = "CheckResponse" /\ banCall.resp = NoResp

\* the error of the last call matches one of the listed substrings
ErrorMatches == \E p \in BanSubstrings : Contains(banCall.err, p)

\* the consecutive-error counter the last call found, 0 when more than 60 s
\* had passed since the previous error
CounterFound ==
    IF banCall.at - banCall.before.lastError > Minute THEN 0
    ELSE banCall.before.errorCount

\* min(2^e seconds, 10 minutes), in ms
ClaimedBackoff(e) ==
    IF e <= 9 THEN Min(Pow2(e) * Second, 10 * Minute) ELSE 10 * Minute

\* C31: a transport error that matches a listed substring increments the
\* class's consecutive-error counter (from 0 when more than 60 s passed
\* since the previous one); when the counter reaches 5 CheckResponse bans
\* the class for min(2^e s, 10 min), e the backoff exponent before the call,
\* then increments e and resets the counter; an error that matches nothing
\* changes nothing.
C31_BackoffFromExponentBefore ==
    ErrorCall =>
        IF ~ErrorMatches THEN BanAfter = banCall.before /\ ~banCall.result
        ELSE IF CounterFound + 1 >= 5
        THEN /\ banCall.result
             /\ BanAfter.banned
             /\ BanAfter.recoveryTime =
                    banCall.at + ClaimedBackoff(banCall.before.backoffCount)
             /\ BanAfter.backoffCount = banCall.before.backoffCount + 1
             /\ BanAfter.errorCount = 0
        ELSE /\ ~banCall.result
             /\ BanAfter.errorCount = CounterFound + 1
             /\ BanAfter.banned = banCall.before.banned
             /\ BanAfter.recoveryTime = banCall.before.recoveryTime

\* what CheckResponse does below the counts at which the duration wraps:
\* the exponent is incremented first and the ban lasts min(2^(e+1) s, 10 min)
C31_BackoffFromExponentAfter ==
    (ErrorCall /\ banCall.before.backoffCount < 33) =>
        IF ~ErrorMatches THEN BanAfter = banCall.before /\ ~banCall.result
        ELSE IF CounterFound + 1 >= 5
        THEN /\ banCall.result
             /\ BanAfter.banned
             /\ BanAfter.recoveryTime =
                    banCall.at + ClaimedBackoff(banCall.before.backoffCount + 1)
             /\ BanAfter.backoffCount = banCall.before.backoffCount + 1
             /\ BanAfter.errorCount = 0
        ELSE /\ ~banCall.result
             /\ BanAfter.errorCount = CounterFound + 1
             /\ BanAfter.banned = banCall.before.banned
             /\ BanAfter.recoveryTime = banCall.before.recoveryTime

\* the last call banned the class for transport errors
ErrorBan == ErrorCall /\ ErrorMatches /\ banCall.result

\* C32: for every backoff count that repeated transport-error bans reach,
\* those at which 2^n seconds no longer fits the duration type included,
\* the ban lasts at least 1 s and at most 10 min, and no shorter than the
\* ban before it.
C32_BackoffBoundedMonotone ==
    ErrorBan =>
        LET duration == BanAfter.recoveryTime - banCall.at
        IN  /\ duration >= Second
            /\ duration <= 10 * Minute
            /\ banCall.before.backoffCount >= 1 =>
                   duration >= backoffDuration(banCall.before.backoffCount,
                                               banCall.at)

\* C32 for the counts at which the duration does not wrap
C32_BackoffBoundedBelowWrap ==
    (ErrorBan /\ banCall.before.backoffCount < 33) =>
        LET duration == BanAfter.recoveryTime - banCall.at
        IN  /\ duration >= Second
            /\ duration <= 10 * Minute
            /\ banCall.before.backoffCount >= 1 =>
                   duration >= backoffDuration(banCall.before.backoffCount,
                                               banCall.at)

-----------------------------------------------------------------------------
(* The weight of the paths outside the table's rows (SpecWeight)           *)

\* the last call's path is no klines, depth, ticker/24hr or exchangeInfo path
OtherRow ==
    /\ rateCall.n > 0
    /\ rateCall.path \notin
           KlinePaths \cup DepthPaths \cup TickerPaths \cup ExchangeInfoPaths

\* C33 as stated: for every path that is no klines, depth, ticker/24hr or
\* exchangeInfo path, and every method and query, calculateWeight returns 1.
C33_EverythingElseOne == OtherRow => rateCall.weight = 1

\* the weights calculateWeight gives the account and order endpoints
OtherWeight ==
    LET noSymbol == Get(rateCall.q, "symbol") = <<>>
    IN  IF rateCall.path \in {"/api/v3/account", "/api/v3/myTrades",
                              "/api/v3/allOrders"} THEN 10
        ELSE IF rateCall.path \in {"/fapi/v1/userTrades", "/fapi/v2/account",
                                   "/fapi/v1/allOrders"} THEN 5
        ELSE IF rateCall.path = "/api/v3/order"
        THEN (IF rateCall.method = "GET" THEN 2 ELSE 1)
        ELSE IF rateCall.path = "/api/v3/openOrders"
        THEN (IF noSymbol THEN 40 ELSE 3)
        ELSE IF rateCall.path = "/fapi/v1/openOrders"
        THEN (IF noSymbol THEN 5 ELSE 1)
        ELSE 1

\* C33, amended: outside the table's rows calculateWeight returns 10 for
\* /api/v3/account, /api/v3/myTrades and /api/v3/allOrders, 5 for
\* /fapi/v1/userTrades, /fapi/v2/account and /fapi/v1/allOrders, 2 for a GET
\* of /api/v3/order and 1 for its other methods, 40 or 3 for
\* /api/v3/openOrders and 5 or 1 for /fapi/v1/openOrders without and with a
\* symbol, and 1 for every other path.
C33_OtherPathsWeight == OtherRow => rateCall.weight = OtherWeight

\* open orders of one symbol on spot have been weighed as 3
C33_Witness ==
    /\ OtherRow
    /\ rateCall.path = "/api/v3/openOrders"
    /\ Get(rateCall.q, "symbol") # <<>>
    /\ rateCall.weight = 3

-----------------------------------------------------------------------------
(* Start and Stop of one KlinesSrv, its supervisors and their websockets:  *)
(* SpecStart                                                               *)

InitStart ==
    /\ impl = "transport"
    /\ FwdZero
    /\ SvcZero
    /\ KlZero
    /\ ExtZero

\* the REST answers and the events of these behaviours
StartBoots == { b \in LatchBoots : Len(b) <= 1 }
StartEvents == { k \in LatchEvents : k.openTime = 1 }

NextStart ==
    \/ StartCall
    \/ KsStop
    \/ \E g \in Sups, ok \in BOOLEAN : SupConnect(g, ok)
    \/ \E g \in Sups : SupDelay(g)
    \/ \E g \in Sups : SupDisconnect(g)
    \/ \E g \in Sups : SupSelect(g)
    \/ \E k \in StartEvents :
          /\ \E g \in Sups : sup.socket[g] = "open"
          /\ WsEvent(k)
    \/ \E banned \in BOOLEAN, boot \in StartBoots : WsInit(banned, boot)
    \/ WsMerge

SpecStart == InitStart /\ [][NextStart]_vars

\* the supervisor goroutines spawned so far, the websockets open now
Supervisors == { g \in Sups : sup.pc[g] # "none" }
OpenSockets == { g \in Sups : sup.socket[g] = "open" }

\* C34: Start() is idempotent: after any number of calls on one instance
\* there is exactly one supervisor goroutine and at most one websocket.
C34_StartIdempotent ==
    ks.started =>
        /\ Cardinality(Supervisors) = 1
        /\ Cardinality(OpenSockets) <= 1

\* C35: from the moment s.ctx is cancelled the supervisor dials no
\* websocket and no snapshot is published, whatever the supervisor was
\* doing when the cancellation came.
C35_NothingAfterCancel ==
    [][ks.cancelled => (sup'.dials = sup.dials /\ klinesArr' = klinesArr)]_vars

-----------------------------------------------------------------------------
(* Service.Stop and the goroutines of one Service: SpecShutdown            *)

\* NewService has returned (the first refresh of the exchange info stored a
\* body and its goroutine waits for the timer, cleanupRoutine waits for its
\* ticker), and one Service.Klines call has created, stored, started and
\* touched a stream and is inside GetKlines
InitShutdown ==
    /\ impl = "transport"
    /\ FwdZero
    /\ srvMap = [k \in Kinds |-> 1]
    /\ lastGet = [k \in Kinds |-> now]
    /\ streams = [i \in StreamIds |->
                    IF i = 1
                    THEN [StreamZero EXCEPT !.created = TRUE, !.starts = 1,
                                            !.stored = TRUE, !.newBy = 1,
                                            !.startedBy = 1]
                    ELSE StreamZero]
    /\ caller = [c \in Callers |->
                   IF c = 1 THEN [pc |-> "get", kind |-> "klines", srv |-> 1]
                   ELSE CallerIdle]
    /\ sweeper = SweeperIdle
    /\ KlZero
    /\ view = NoView
    /\ ks = [KsZero EXCEPT !.started = TRUE]
    /\ rd = [r \in Readers |-> RdIdle]
    /\ exch = [StoreExchangeInfo(ExchZero(SPOT), [status |-> 200, poll |-> 1])
                 EXCEPT !.pc = "timer", !.nextAt = now + RefreshDur, !.polls = 1,
                        !.last = [how |-> "stored", before |-> NoBody,
                                  status |-> 200, fired |-> TRUE]]
    /\ exRd = [r \in Readers |-> ExRdIdle]
    /\ rateCall = NoRateCall
    /\ banCall = NoBanCall
    /\ sup = [SupZero EXCEPT !.pc[1] = "top"]
    /\ shut = ShutZero

\* the answers to the refreshes of these behaviours
ShutResponses == { r \in ExResponses : r.status = 200 }

NextShutdown ==
    \/ ServiceStop
    \/ CleanupExit
    \/ PollerExit
    \/ \E k \in Kinds : ~shut.cleanupExited /\ SweepRange(k)
    \/ SweepLoad
    \/ SweepDeleteLastGet
    \/ SweepDeleteMap
    \/ SweepStop
    \/ \E resp \in ShutResponses : ~shut.pollerExited /\ refreshExchangeInfo(resp, NoErr)
    \/ \E err \in ExErrors : ~shut.pollerExited /\ refreshExchangeInfo(NoResp, err)
    \/ ~shut.pollerExited /\ ExTimer
    \/ \E g \in Sups, ok \in BOOLEAN : SupConnect(g, ok)
    \/ \E g \in Sups : SupDelay(g)
    \/ \E g \in Sups : SupDisconnect(g)
    \/ \E g \in Sups : SupSelect(g)
    \/ \E d \in RegDeltas : Tick(d)

SpecShutdown == InitShutdown /\ [][NextShutdown]_vars

\* C38: when Service.Stop has returned, every stream supervisor of the
\* Service, the cleanup goroutine and the goroutine that refreshes the
\* exchange info have exited.
C38_StopAwaitsExits ==
    shut.returned =>
        /\ \A g \in Sups : sup.pc[g] \in {"none", "exited"}
        /\ shut.cleanupExited
        /\ shut.pollerExited

-----------------------------------------------------------------------------
(* The two classes of the BanDetector side by side: SpecFrame              *)

\* the answers of these behaviours: bans with and without Retry-After, a
\* success with a weight header, a success without one
FrameResponses ==
    { Response(418, <<"1">>, <<>>, <<>>), Response(429, <<>>, <<"7">>, <<>>),
      Response(403, <<>>, <<>>, <<>>), Response(200, <<>>, <<"7">>, <<>>),
      Response(200, <<>>, <<>>, <<>>) }

\* either class may have four matching errors behind it
InitFrame ==
    /\ impl = "transport"
    /\ now = StartTime
    /\ advances = 0
    /\ bd \in [Classes -> {BanDetectorZero, BackoffState(0, 4)}]
    /\ limiter = [c \in Classes |-> LimiterZero]
    /\ req = [r \in Reqs |-> Idle]
    /\ hist = HistZero
    /\ SvcZero
    /\ KlZero
    /\ ExtZero

NextFrame ==
    \/ \E c \in Classes : IsBannedCall(c)
    \/ \E c \in Classes, resp \in FrameResponses : CheckResponseCall(c, resp, NoErr)
    \/ \E c \in Classes : CheckResponseCall(c, NoResp, <<"timeout">>)
    \/ \E d \in Deltas : Tick(d)

SpecFrame == InitFrame /\ [][NextFrame]_vars

====
